---- MODULE Spec2Model ----
(***************************************************************************)
(* Model of flow_components/scout_categorization.py: the Relationship      *)
(* Friction Analyzer (analyze_relationships, calculate_proximity_category),*)
(* process_global_context, transform_user_state and curate_opportunities;  *)
(* of the wellness categorizers of flow_components/sentry_categorization.py*)
(* and of their copies in inlinecode_nodes/sentry, fed by                  *)
(* extract_stress_indicators; and of the lambda_handler of both modes.     *)
(*                                                                         *)
(* Python values are modelled as follows.                                  *)
(*   - A dict is a function whose DOMAIN is the set of keys it holds; a    *)
(*     key that is absent is not in the DOMAIN (d.get(k, x) is Get below). *)
(*   - None, where it is passed around as a value (a location), is the     *)
(*     record None.                                                        *)
(*   - Coordinates are integers counting 1/(2000 * 111) degree, the angle  *)
(*     that dist = sqrt(dlat^2 + dlon^2) * 111 turns into 0.5 m: 0.0005    *)
(*     degree is 111 units, and dist is sqrt(dlat^2 + dlon^2) units of     *)
(*     0.5 m. dist < t is decided on the squares, in exact arithmetic      *)
(*     (the code's floats are read as the reals they stand for).           *)
(*   - An exception ends the run with pc naming it.                        *)
(*   - A string is tested for the substrings the code looks for by a table *)
(*     over the strings of the model (KeywordsIn, Contains).               *)
(*   - The travel-time index is counted in hundredths, and so are hours;   *)
(*     instants of the wellness clock are minutes.                         *)
(*   - None compared with numbers is NoneNum, with strings NoneStr.        *)
(***************************************************************************)
EXTENDS Integers, Sequences, FiniteSets

VARIABLES
    pc,              \* control position of the modelled call
    users,           \* analyze_relationships: argument users
    global_context,  \* analyze_relationships: argument global_context
    user_locs,       \* analyze_relationships: local user_locs
    i,               \* index in users of source_user (outer loop)
    j,               \* index in social_graph of relation (inner loop)
    seen_pairs,      \* analyze_relationships: local seen_pairs
    results,         \* analyze_relationships: local results
    loc_a,           \* calculate_proximity_category: argument of the last call
    loc_b,           \* calculate_proximity_category: argument of the last call
    prox,            \* value returned by the last call
    env_feed,        \* process_global_context: argument env_feed
    utc_offset,      \* hours the process's local time is ahead of UTC
    events,          \* curate_opportunities: argument events
    users_map,       \* user_cluster_map, curate_opportunities' users_map
    e,               \* index in events of event (curate_opportunities' loop)
    curated,         \* curate_opportunities: local curated
    data,            \* extract_stress_indicators: argument data
    filtered_data,   \* the categorizers' argument filtered_data
    now,             \* the wall clock read by datetime.now, in minutes
    flow,            \* sentry lambda_handler: the locals written so far
    inline,          \* the inline nodes: the values written so far
    earlier,         \* the result of the classification before the last
    lambda_event,    \* lambda_handler: argument event
    handler,         \* lambda_handler: the locals written so far
    response         \* what the invocation of lambda_handler gave

contextVars == <<env_feed, utc_offset>>

sentryVars == <<data, filtered_data, now, flow, inline, earlier>>

handlerVars == <<lambda_event, handler, response>>

curateVars == <<events, users_map, e, curated>>

vars == <<pc, users, global_context, user_locs, i, j, seen_pairs, results,
          loc_a, loc_b, prox, contextVars, sentryVars, handlerVars, curateVars>>

----------------------------------------------------------------------------
(* Python values *)

None == [None |-> TRUE]

EmptyDict == [k \in {} |-> 0]

Unbound == "<unbound>"

Restrict(d, keys) == [k \in keys |-> d[k]]

\* `not x` for x a dict or None
Falsy(x) == x = None \/ DOMAIN x = {}

\* d.get(k, default)
Get(d, k, default) == IF k \in DOMAIN d THEN d[k] ELSE default

Loc(lat, lon) == [lat |-> lat, lon |-> lon]

----------------------------------------------------------------------------
(* calculate_proximity_category *)

\* the factor of line 253
KmPerDegree == 111

\* lengths are counted in units of 0.5 m
UnitsPerKm == 2000

\* one degree of latitude or longitude, in coordinate units
UnitsPerDegree == UnitsPerKm * KmPerDegree

\* n / 10000 degree, in coordinate units
TenThousandthDegrees(n) == (n * UnitsPerDegree) \div 10000

\* the thresholds 0.2, 1.0 and 2.0 km
CoLocatedLimit == (2 * UnitsPerKm) \div 10

WalkingLimit == (10 * UnitsPerKm) \div 10

DistrictLimit == (20 * UnitsPerKm) \div 10

\* SquaredDegrees with lat1 typed for lon1
SquaredDegrees_lat1_for_lon1(a, b) ==
    LET lat1 == Get(a, "lat", 0)
        lat2 == Get(b, "lat", 0)
        lon2 == Get(b, "lon", 0)
    IN  (lat2 - lat1) * (lat2 - lat1) + (lon2 - lat1) * (lon2 - lat1)

\* (lat2 - lat1)**2 + (lon2 - lon1)**2, missing lat or lon read as 0
SquaredDegrees(a, b) ==
    LET lat1 == Get(a, "lat", 0)
        lon1 == Get(a, "lon", 0)
        lat2 == Get(b, "lat", 0)
        lon2 == Get(b, "lon", 0)
    IN  (lat2 - lat1) * (lat2 - lat1) + (lon2 - lon1) * (lon2 - lon1)

\* DistBelow with <= for <
DistBelow_or_equal(squared, limit) == squared <= limit * limit

\* dist < limit, for dist = sqrt(squared) * 111 km, that is sqrt(squared)
\* units of length
DistBelow(squared, limit) == squared < limit * limit

\* calculate_proximity_category with CO_LOCATED below 0.02 km
calculate_proximity_category_20m(a, b) ==
    IF Falsy(a) \/ Falsy(b) THEN "UNKNOWN"
    ELSE LET d2 == SquaredDegrees(a, b)
         IN  IF DistBelow(d2, CoLocatedLimit \div 10) THEN "CO_LOCATED"
             ELSE IF DistBelow(d2, WalkingLimit) THEN "WALKING_DISTANCE"
             ELSE IF DistBelow(d2, DistrictLimit) THEN "SAME_DISTRICT"
             ELSE "DISTANT"

calculate_proximity_category(a, b) ==
    IF Falsy(a) \/ Falsy(b) THEN "UNKNOWN"
    ELSE LET d2 == SquaredDegrees(a, b)
         IN  IF DistBelow(d2, CoLocatedLimit) THEN "CO_LOCATED"
             ELSE IF DistBelow(d2, WalkingLimit) THEN "WALKING_DISTANCE"
             ELSE IF DistBelow(d2, DistrictLimit) THEN "SAME_DISTRICT"
             ELSE "DISTANT"

----------------------------------------------------------------------------
(* analyze_relationships *)

Labels == {"Son", "daughter", "Father", "MOTHER", "Friend"}

\* str.upper() on the labels of the model ("" is the default label)
Upper(s) ==
    CASE s = "Son" -> "SON"
      [] s = "daughter" -> "DAUGHTER"
      [] s = "Father" -> "FATHER"
      [] s = "MOTHER" -> "MOTHER"
      [] s = "Friend" -> "FRIEND"
      [] s = "" -> ""

KinshipLabels == {"SON", "DAUGHTER", "FATHER", "MOTHER"}

Min(a, b) == IF a <= b THEN a ELSE b

Max(a, b) == IF a <= b THEN b ELSE a

\* pair_key without sorted()
pair_key_unsorted(source_id, target_id) == <<source_id, target_id>>

\* pair_key of the target alone
pair_key_target_only(source_id, target_id) == <<target_id>>

\* tuple(sorted([source_id, target_id]))
pair_key(source_id, target_id) ==
    <<Min(source_id, target_id), Max(source_id, target_id)>>

\* source_user.get("social_graph_snapshot", [])
social_graph(user) == Get(user, "social_graph_snapshot", <<>>)

\* {u["user_id"]: u["current_location"] for u in users}: a later user of the
\* same id replaces an earlier one
BuildUserLocs(us) ==
    [id \in {us[k].user_id : k \in 1..Len(us)} |->
        LET last == CHOOSE k \in 1..Len(us) :
                        /\ us[k].user_id = id
                        /\ \A m \in (k+1)..Len(us) : us[m].user_id # id
        IN  us[last].current_location]

\* DisconnectHint with `or` for `and`
DisconnectHint_or(ctx, p) ==
    IF ctx.transit_friction = "HIGH_FRICTION" \/ p = "DISTANT"
    THEN <<"High Friction Travel + Critical Disconnect = Suggest Phone/Video Call.">>
    ELSE IF p = "WALKING_DISTANCE"
    THEN <<"Nearby + Disconnected = Suggest immediate meetup.">>
    ELSE <<"Critical Disconnect detected.">>

\* DisconnectHint with CO_LOCATED counted as nearby
DisconnectHint_co_located_nearby(ctx, p) ==
    IF ctx.transit_friction = "HIGH_FRICTION" /\ p = "DISTANT"
    THEN <<"High Friction Travel + Critical Disconnect = Suggest Phone/Video Call.">>
    ELSE IF p \in {"CO_LOCATED", "WALKING_DISTANCE"}
    THEN <<"Nearby + Disconnected = Suggest immediate meetup.">>
    ELSE <<"Critical Disconnect detected.">>

\* the hint of a CRITICAL_DISCONNECT record
DisconnectHint(ctx, p) ==
    IF ctx.transit_friction = "HIGH_FRICTION" /\ p = "DISTANT"
    THEN <<"High Friction Travel + Critical Disconnect = Suggest Phone/Video Call.">>
    ELSE IF p = "WALKING_DISTANCE"
    THEN <<"Nearby + Disconnected = Suggest immediate meetup.">>
    ELSE <<"Critical Disconnect detected.">>

\* the f-string hint of a HEALTHY record, as its pieces
HealthyHint(ctx) ==
    <<"Healthy connection + nearby + '", ctx.outdoor_viability,
      "' weather = Suggest local indoor hangout.">>

\* relation.get("relation", "").upper(), kinship labels folded
DisconnectRelType(relation) ==
    LET rel_type == Upper(Get(relation, "relation", ""))
    IN  IF rel_type \in KinshipLabels THEN "PARENT_CHILD" ELSE rel_type

\* relation.get("relation").upper()
HealthyRelType(relation) == Upper(relation.relation)

\* DisconnectRecord with source and target taken from the sorted pair key
DisconnectRecord_sorted_ends(source_id, relation, p, ctx) ==
    [source_user |-> Min(source_id, relation.target_id),
     target_user |-> Max(source_id, relation.target_id),
     relationship_type |-> DisconnectRelType(relation),
     connection_health |-> "CRITICAL_DISCONNECT",
     proximity_opportunity |-> p,
     scout_hint |-> DisconnectHint(ctx, p)]

DisconnectRecord(source_id, relation, p, ctx) ==
    [source_user |-> source_id,
     target_user |-> relation.target_id,
     relationship_type |-> DisconnectRelType(relation),
     connection_health |-> "CRITICAL_DISCONNECT",
     proximity_opportunity |-> p,
     scout_hint |-> DisconnectHint(ctx, p)]

HealthyRecord(source_id, relation, ctx) ==
    [source_user |-> source_id,
     target_user |-> relation.target_id,
     relationship_type |-> HealthyRelType(relation),
     connection_health |-> "HEALTHY",
     proximity_opportunity |-> "WALKING_DISTANCE",
     scout_hint |-> HealthyHint(ctx)]

\* the loop variables at position (i, j)
InLoop == pc = "loop" /\ i <= Len(users)

source_user == users[i]

InBody == InLoop /\ j <= Len(social_graph(source_user))

relation == social_graph(source_user)[j]

HasTarget == "target_id" \in DOMAIN relation

StatusIs(s) == "status" \in DOMAIN relation /\ relation.status = s

\* user_locs.get(source_user["user_id"]), user_locs.get(target_id)
SourceLoc == Get(user_locs, source_user.user_id, None)

TargetLoc == Get(user_locs, relation.target_id, None)

CurrentKey == pair_key(source_user.user_id, relation.target_id)

CurrentProx == calculate_proximity_category(SourceLoc, TargetLoc)

\* lines 175-179
Start ==
    /\ pc = "start"
    /\ IF \E k \in 1..Len(users) : "current_location" \notin DOMAIN users[k]
       THEN pc' = "KeyError" /\ UNCHANGED user_locs
       ELSE pc' = "loop" /\ user_locs' = BuildUserLocs(users)
    /\ UNCHANGED <<users, global_context, i, j, seen_pairs, results,
                   loc_a, loc_b, prox, contextVars, sentryVars, handlerVars, curateVars>>

\* line 181: the next source_user
NextUser ==
    /\ InLoop
    /\ j > Len(social_graph(source_user))
    /\ i' = i + 1
    /\ j' = 1
    /\ UNCHANGED <<pc, users, global_context, user_locs, seen_pairs, results,
                   loc_a, loc_b, prox, contextVars, sentryVars, handlerVars, curateVars>>

\* line 189: sorted() of an id and None
RaiseTypeError ==
    /\ InBody
    /\ ~HasTarget
    /\ pc' = "TypeError"
    /\ UNCHANGED <<users, global_context, user_locs, i, j, seen_pairs, results,
                   loc_a, loc_b, prox, contextVars, sentryVars, handlerVars, curateVars>>

\* lines 192-193
SkipSeenPair ==
    /\ InBody
    /\ HasTarget
    /\ CurrentKey \in seen_pairs
    /\ j' = j + 1
    /\ UNCHANGED <<pc, users, global_context, user_locs, i, seen_pairs, results,
                   loc_a, loc_b, prox, contextVars, sentryVars, handlerVars, curateVars>>

\* lines 194-200, common to the iterations of a pair not seen before
VisitPair ==
    /\ InBody
    /\ HasTarget
    /\ CurrentKey \notin seen_pairs
    /\ seen_pairs' = seen_pairs \cup {CurrentKey}
    /\ loc_a' = SourceLoc
    /\ loc_b' = TargetLoc
    /\ prox' = CurrentProx
    /\ UNCHANGED <<users, global_context, user_locs, i, contextVars, sentryVars, handlerVars, curateVars>>

\* lines 203-223
EmitDisconnect ==
    /\ VisitPair
    /\ StatusIs("CRITICAL_DISCONNECT")
    /\ results' = Append(results,
           DisconnectRecord(source_user.user_id, relation, CurrentProx,
                            global_context))
    /\ j' = j + 1
    /\ UNCHANGED pc

\* lines 226-235, the label present
EmitHealthy ==
    /\ VisitPair
    /\ StatusIs("GOOD")
    /\ CurrentProx = "WALKING_DISTANCE"
    /\ "relation" \in DOMAIN relation
    /\ results' = Append(results,
           HealthyRecord(source_user.user_id, relation, global_context))
    /\ j' = j + 1
    /\ UNCHANGED pc

\* line 231: relation.get("relation") is None
RaiseAttributeError ==
    /\ VisitPair
    /\ StatusIs("GOOD")
    /\ CurrentProx = "WALKING_DISTANCE"
    /\ "relation" \notin DOMAIN relation
    /\ pc' = "AttributeError"
    /\ UNCHANGED <<j, results>>

\* neither branch appends
NoRecord ==
    /\ VisitPair
    /\ ~StatusIs("CRITICAL_DISCONNECT")
    /\ ~(StatusIs("GOOD") /\ CurrentProx = "WALKING_DISTANCE")
    /\ j' = j + 1
    /\ UNCHANGED <<pc, results>>

\* line 237
Return ==
    /\ pc = "loop"
    /\ i > Len(users)
    /\ pc' = "done"
    /\ UNCHANGED <<users, global_context, user_locs, i, j, seen_pairs, results,
                   loc_a, loc_b, prox, contextVars, sentryVars, handlerVars, curateVars>>

----------------------------------------------------------------------------
(* Inputs *)

MaxEdges == 3

Frictions == {"LOW_FRICTION", "MODERATE_DELAY", "HIGH_FRICTION"}

Relations(targets, labels, statuses) ==
    [target_id : targets, relation : labels, status : statuses]

\* the variables of the wellness pipeline, not in use
SentryIdle ==
    /\ data = EmptyDict
    /\ filtered_data = EmptyDict
    /\ now = 0
    /\ flow = EmptyDict
    /\ inline = EmptyDict
    /\ earlier = EmptyDict

\* the variables of lambda_handler, not in use
HandlerIdle ==
    /\ lambda_event = EmptyDict
    /\ handler = EmptyDict
    /\ response = EmptyDict

\* the variables of process_global_context, not in use
ContextIdle ==
    /\ env_feed = EmptyDict
    /\ utc_offset = 0

\* the variables of curate_opportunities, not in use
CurateIdle ==
    /\ events = <<>>
    /\ users_map = <<>>
    /\ e = 1
    /\ curated = <<>>

AnalyzeLocals ==
    /\ pc = "start"
    /\ SentryIdle
    /\ HandlerIdle
    /\ ContextIdle
    /\ CurateIdle
    /\ user_locs = EmptyDict
    /\ i = 1
    /\ j = 1
    /\ seen_pairs = {}
    /\ results = <<>>
    /\ loc_a = None
    /\ loc_b = None
    /\ prox = Unbound

\* Two users within walking distance of each other, in either order of the
\* list, and up to MaxEdges relations between them and themselves.
InitGraphs ==
    /\ AnalyzeLocals
    /\ global_context \in
           [outdoor_viability : {"OPTIMAL"},
            transit_friction : {"LOW_FRICTION"},
            temporal_phase : {"UNKNOWN"}]
    /\ \E n1 \in 0..MaxEdges :
       \E n2 \in 0..(MaxEdges - n1) :
       \E g1 \in [1..n1 -> Relations({1, 2}, {"Son", "Friend"},
                                     {"CRITICAL_DISCONNECT", "GOOD"})] :
       \E g2 \in [1..n2 -> Relations({1, 2}, {"Son", "Friend"},
                                     {"CRITICAL_DISCONNECT", "GOOD"})] :
       \E first \in {1, 2} :
           users = << [user_id |-> first, current_location |-> Loc(0, 0),
                       social_graph_snapshot |-> g1],
                      [user_id |-> 3 - first, current_location |-> Loc(1000, 1000),
                       social_graph_snapshot |-> g2] >>

\* Two users and one relation of the first: any place, label, status and
\* context, any of the optional keys absent.
InitOneRelation ==
    /\ AnalyzeLocals
    /\ global_context \in
           [outdoor_viability : {"OPTIMAL", "INDOOR_ONLY"},
            transit_friction : Frictions,
            temporal_phase : {"UNKNOWN"}]
    /\ \E r \in Relations({1, 2, 3}, Labels,
                          {"CRITICAL_DISCONNECT", "GOOD", "STRAINED"}) :
       \E rk \in SUBSET {"target_id", "relation", "status"} :
       \E l1 \in {Loc(0, 0), EmptyDict} :
       \E l2 \in {Loc(TenThousandthDegrees(5), TenThousandthDegrees(5)), Loc(1000, 1000), Loc(2000, 2000), Loc(4000, 4000)} :
       \E k1 \in {{"user_id", "current_location", "social_graph_snapshot"},
                  {"user_id", "social_graph_snapshot"}} :
       \E k2 \in {{"user_id", "current_location"}, {"user_id"}} :
           users = << Restrict([user_id |-> 1, current_location |-> l1,
                                social_graph_snapshot |-> <<Restrict(r, rk)>>], k1),
                      Restrict([user_id |-> 2, current_location |-> l2], k2) >>

Init == InitGraphs \/ InitOneRelation

\* calculate_proximity_category alone: every pair of locations, at and
\* around the three thresholds
ProxCoords == {0, TenThousandthDegrees(5), 399, 400, 1999, 2000, 3999, 4000}

ProxLocations ==
    {None, EmptyDict, [name |-> "Home"]}
    \cup {[lat |-> x] : x \in {400, 2000}}
    \cup {[lon |-> y, name |-> "Cafe"] : y \in {399, 4000}}
    \cup {Loc(x, y) : x \in ProxCoords, y \in {0, TenThousandthDegrees(5)}}
    \cup {Loc(0 - 400, 0), Loc(0, 0 - 1999)}

InitProximity ==
    /\ pc = "proximity_call"
    /\ SentryIdle
    /\ HandlerIdle
    /\ ContextIdle
    /\ CurateIdle
    /\ loc_a \in ProxLocations
    /\ loc_b \in ProxLocations
    /\ prox = Unbound
    /\ users = <<>>
    /\ global_context = EmptyDict
    /\ user_locs = EmptyDict
    /\ i = 1
    /\ j = 1
    /\ seen_pairs = {}
    /\ results = <<>>

\* lines 240-261
CallProximity ==
    /\ pc = "proximity_call"
    /\ prox' = calculate_proximity_category(loc_a, loc_b)
    /\ pc' = "proximity_done"
    /\ UNCHANGED <<users, global_context, user_locs, i, j, seen_pairs, results,
                   loc_a, loc_b, contextVars, sentryVars, handlerVars, curateVars>>

NextProximity == CallProximity

SpecProximity == InitProximity /\ [][NextProximity]_vars

Next ==
    \/ Start
    \/ NextUser
    \/ RaiseTypeError
    \/ SkipSeenPair
    \/ EmitDisconnect
    \/ EmitHealthy
    \/ RaiseAttributeError
    \/ NoRecord
    \/ Return

Spec == Init /\ [][Next]_vars

----------------------------------------------------------------------------
(* process_global_context *)

\* line 13: THRESHOLDS["weather"]["min_temp_outdoor"]
MinTempOutdoor == 15

\* line 14: THRESHOLDS["weather"]["bad_conditions"]
BadConditions == {"Rain", "Snow", "Thunderstorm", "Drizzle"}

\* line 9: THRESHOLDS["traffic"]["high"], 2.0, in hundredths
TrafficHigh == 200

\* line 10: THRESHOLDS["traffic"]["moderate"], 1.4, in hundredths
TrafficModerate == 140

\* line 31
weather_api == Get(env_feed, "weather_api", EmptyDict)

\* line 32
weather_curr == Get(weather_api, "current", EmptyDict)

\* line 33: the list that [0] indexes
weather_list == Get(weather_curr, "weather", <<EmptyDict>>)

\* line 33: [0] of an empty list raises IndexError
WeatherIndexError == Len(weather_list) = 0

\* line 33
weather_main == Get(weather_list[1], "main", "Clear")

\* line 34
temp == Get(weather_curr, "temp", 20)

outdoor_temp_first(main, t) ==
    IF t < MinTempOutdoor THEN "VIABLE_WITH_GEAR"
    ELSE IF main \in BadConditions THEN "INDOOR_ONLY"
    ELSE "OPTIMAL"

\* lines 36-41
outdoor(main, t) ==
    IF main \in BadConditions THEN "INDOOR_ONLY"
    ELSE IF t < MinTempOutdoor THEN "VIABLE_WITH_GEAR"
    ELSE "OPTIMAL"

\* line 44
traffic_api == Get(env_feed, "traffic_api", EmptyDict)

\* line 45: travelTimeIndex in hundredths, 1.0 when absent
traffic_idx == Get(Get(traffic_api, "summary", EmptyDict), "travelTimeIndex", 100)

friction_strict(idx) ==
    IF idx > TrafficHigh THEN "HIGH_FRICTION"
    ELSE IF idx > TrafficModerate THEN "MODERATE_DELAY"
    ELSE "LOW_FRICTION"

\* lines 47-52
friction(idx) ==
    IF idx >= TrafficHigh THEN "HIGH_FRICTION"
    ELSE IF idx >= TrafficModerate THEN "MODERATE_DELAY"
    ELSE "LOW_FRICTION"

\* line 55: weather_curr.get("dt") is None when dt is absent
HasDt == "dt" \in DOMAIN weather_curr

\* line 56: `if dt_timestamp:` is false for None and for 0
DtTruthy == HasDt /\ weather_curr["dt"] # 0

\* lines 57-58: datetime.fromtimestamp(dt).hour, the hour of the local time
hour(dt) == ((dt \div 3600) + utc_offset) % 24

phase_of_hour_with_morning(h) ==
    IF 6 <= h /\ h < 9 THEN "MORNING"
    ELSE IF 9 <= h /\ h < 17 THEN "WORK_HOURS"
    ELSE IF 17 <= h /\ h < 19 THEN "EVENING_TRANSITION"
    ELSE IF 19 <= h /\ h < 22 THEN "PRIME_SOCIAL_TIME"
    ELSE "LATE_NIGHT"

\* lines 59-66
phase_of_hour(h) ==
    IF 9 <= h /\ h < 17 THEN "WORK_HOURS"
    ELSE IF 17 <= h /\ h < 19 THEN "EVENING_TRANSITION"
    ELSE IF 19 <= h /\ h < 22 THEN "PRIME_SOCIAL_TIME"
    ELSE "LATE_NIGHT"

\* lines 56-68
phase ==
    IF DtTruthy THEN phase_of_hour(hour(weather_curr["dt"])) ELSE "UNKNOWN"

\* lines 78-84; the three sentences are named by their subject
generate_implication(o, f) ==
    IF f = "HIGH_FRICTION" THEN "Prioritize digital connections"
    ELSE IF o = "INDOOR_ONLY" THEN "Focus on indoor venues"
    ELSE "Conditions optimal"

\* lines 70-75
process_global_context ==
    [outdoor_viability |-> outdoor(weather_main, temp),
     transit_friction  |-> friction(traffic_idx),
     temporal_phase    |-> phase,
     implication       |-> generate_implication(outdoor(weather_main, temp),
                                                friction(traffic_idx))]

\* the variables of analyze_relationships and calculate_proximity_category,
\* not in use
AnalyzeIdle ==
    /\ users = <<>>
    /\ user_locs = EmptyDict
    /\ i = 1
    /\ j = 1
    /\ seen_pairs = {}
    /\ results = <<>>
    /\ loc_a = None
    /\ loc_b = None
    /\ prox = Unbound

analyzeVars == <<users, user_locs, i, j, seen_pairs, results, loc_a, loc_b, prox>>

WeatherMains == BadConditions \cup {"Clear", "Clouds", "rain"}

WeatherLists ==
    {<<>>, <<EmptyDict>>} \cup {<<[main |-> m]>> : m \in WeatherMains}

Temps == {0 - 3, MinTempOutdoor - 1, MinTempOutdoor, MinTempOutdoor + 1}

\* Unix times: the epoch, and one instant in each hour of the day after it
Timestamps == {0} \cup {h * 3600 + 59 : h \in 24..47}

UtcOffsets == {0 - 5, 0, 2}

TravelTimeIndexes ==
    {100, TrafficModerate - 1, TrafficModerate, TrafficModerate + 1,
     TrafficHigh - 1, TrafficHigh, TrafficHigh + 1}

CurrentWeathers ==
    {Restrict([weather |-> w, temp |-> t, dt |-> d], keys) :
        w \in WeatherLists, t \in Temps, d \in Timestamps,
        keys \in SUBSET {"weather", "temp", "dt"}}

WeatherApis == {EmptyDict} \cup {[current |-> c] : c \in CurrentWeathers}

TrafficApis ==
    {EmptyDict, [summary |-> EmptyDict]}
    \cup {[summary |-> [travelTimeIndex |-> x]] : x \in TravelTimeIndexes}

EnvFeeds ==
    {Restrict([weather_api |-> w, traffic_api |-> t], keys) :
        w \in WeatherApis, t \in TrafficApis,
        keys \in SUBSET {"weather_api", "traffic_api"}}

InitContext ==
    /\ pc = "context_call"
    /\ SentryIdle
    /\ HandlerIdle
    /\ env_feed \in EnvFeeds
    /\ utc_offset \in UtcOffsets
    /\ global_context = EmptyDict
    /\ AnalyzeIdle
    /\ CurateIdle

\* lines 31-75, when line 33 finds a first element
ReturnContext ==
    /\ pc = "context_call"
    /\ ~WeatherIndexError
    /\ global_context' = process_global_context
    /\ pc' = "context_done"
    /\ UNCHANGED <<analyzeVars, contextVars, sentryVars, handlerVars, curateVars>>

\* line 33: the list under "weather" is empty
RaiseIndexError ==
    /\ pc = "context_call"
    /\ WeatherIndexError
    /\ pc' = "IndexError"
    /\ UNCHANGED <<global_context, analyzeVars, contextVars, sentryVars, handlerVars, curateVars>>

NextContext ==
    \/ ReturnContext
    \/ RaiseIndexError

SpecContext == InitContext /\ [][NextContext]_vars

----------------------------------------------------------------------------
(* transform_user_state *)

\* None where it is compared with strings (a user_id that is absent)
NoneStr == "None"

\* line 97
sentry_analysis(user) == Get(user, "sentry_analysis", EmptyDict)

\* sentry.get(k) == v for a string v: None equals no string
FieldIs(sentry, k, v) == k \in DOMAIN sentry /\ sentry[k] = v

\* lines 100-106
availability_status(sentry) ==
    IF FieldIs(sentry, "availability", "FREE") THEN "AVAILABLE_NOW"
    ELSE IF \/ FieldIs(sentry, "availability", "BUSY_BUT_ENDING_SOON")
            \/ FieldIs(sentry, "availability", "TRANSITIONING")
         THEN "AVAILABLE_SOON"
    ELSE "BUSY_UNAVAILABLE"

\* line 110: risk_flags, read only by `in`, is the set of its elements
risks(sentry) == Get(sentry, "risk_flags", {})

wellness_need_stress_first(sentry) ==
    IF FieldIs(sentry, "stress_level", "HIGH")
       \/ FieldIs(sentry, "stress_level", "CRITICAL_HIGH")
    THEN "REST_RECOVERY"
    ELSE IF FieldIs(sentry, "stress_level", "ELEVATED")
            \/ FieldIs(sentry, "stress_level", "MODERATE")
         THEN "STRESS_RELIEF"
    ELSE IF FieldIs(sentry, "stress_level", "FATIGUED") THEN "REST_RECOVERY"
    ELSE IF "ISOLATION_RISK" \in risks(sentry) THEN "SOCIAL_CONNECTION"
    ELSE "MAINTENANCE"

\* lines 109-121
wellness_need(sentry) ==
    IF "ISOLATION_RISK" \in risks(sentry) THEN "SOCIAL_CONNECTION"
    ELSE IF FieldIs(sentry, "stress_level", "HIGH")
            \/ FieldIs(sentry, "stress_level", "CRITICAL_HIGH")
         THEN "REST_RECOVERY"
    ELSE IF FieldIs(sentry, "stress_level", "ELEVATED")
            \/ FieldIs(sentry, "stress_level", "MODERATE")
         THEN "STRESS_RELIEF"
    ELSE IF FieldIs(sentry, "stress_level", "FATIGUED") THEN "REST_RECOVERY"
    ELSE "MAINTENANCE"

\* line 124
loc_name_full(user) == Get(Get(user, "current_location", EmptyDict), "name", "")

\* The location names of the model, each with the substrings that lines
\* 128-150 look for in it (in its lower case; "(" in the name itself).
LocationNames ==
    {"", "Home (Schwabing)", "TechCorp Office", "Coworking Cafe",
     "U-Bahn Transit", "Commuting via Mittlerer Ring", "Lost Weekend Cafe",
     "Gym Downtown", "English Garden Park (Schwabing)", "Library"}

\* `kw in loc_name_lower`, and `"(" in loc_name_full`
Contains(name, kw) ==
    kw \in CASE name = "Home (Schwabing)"             -> {"home", "("}
             [] name = "TechCorp Office"              -> {"office"}
             [] name = "Coworking Cafe"               -> {"work", "cafe"}
             [] name = "U-Bahn Transit"               -> {"transit"}
             [] name = "Commuting via Mittlerer Ring" ->
                    {"commuting", "mittlerer", "ring"}
             [] name = "Lost Weekend Cafe"            -> {"lost weekend", "cafe"}
             [] name = "Gym Downtown"                 -> {"gym"}
             [] name = "English Garden Park (Schwabing)" -> {"park", "("}
             [] OTHER                                 -> {}

\* line 141: loc_name_full.split("(")[-1].strip(")")
AfterParen(name) ==
    CASE name = "Home (Schwabing)"                -> "Schwabing"
      [] name = "English Garden Park (Schwabing)" -> "Schwabing"
      [] OTHER                                    -> name

\* line 151: loc_name_full.split()[0]
FirstWord(name) ==
    CASE name = "TechCorp Office"              -> "TechCorp"
      [] name = "Coworking Cafe"               -> "Coworking"
      [] name = "U-Bahn Transit"               -> "U-Bahn"
      [] name = "Commuting via Mittlerer Ring" -> "Commuting"
      [] name = "Lost Weekend Cafe"            -> "Lost"
      [] name = "Gym Downtown"                 -> "Gym"
      [] name = "Home (Schwabing)"             -> "Home"
      [] name = "English Garden Park (Schwabing)" -> "English"
      [] OTHER                                 -> name

\* line 134
ThirdPlaces == {"cafe", "coffee", "park", "gym", "restaurant"}

\* lines 128-137
loc_cat(name) ==
    IF Contains(name, "home") THEN "HOME_BASE"
    ELSE IF Contains(name, "office") \/ Contains(name, "work")
         THEN "WORK_OFFICE"
    ELSE IF Contains(name, "transit") \/ Contains(name, "commuting")
         THEN "IN_TRANSIT"
    ELSE IF \E place \in ThirdPlaces : Contains(name, place) THEN "THIRD_PLACE"
    ELSE "HOME_BASE"

\* lines 140-153
neighborhood(name) ==
    IF Contains(name, "(") THEN AfterParen(name)
    ELSE IF Contains(name, "transit") \/ Contains(name, "commuting")
         THEN IF Contains(name, "mittlerer") \/ Contains(name, "ring")
              THEN "Transit_Corridor_East"
              ELSE "In_Transit"
    ELSE IF loc_cat(name) = "THIRD_PLACE"
         THEN IF Contains(name, "lost weekend") THEN "Schwabing-West"
              ELSE IF name # "" THEN FirstWord(name)
              ELSE "Unknown"
    ELSE name

\* lines 87-161
transform_user_state(user) ==
    [user_id             |-> Get(user, "user_id", NoneStr),
     availability_status |-> availability_status(sentry_analysis(user)),
     wellness_need       |-> wellness_need(sentry_analysis(user)),
     location_context    |-> loc_cat(loc_name_full(user)),
     neighborhood        |-> neighborhood(loc_name_full(user))]

user_cluster_map_keeping_neighborhood(us) ==
    [k \in 1..Len(us) |->
        IF k > 1 /\ "current_location" \notin DOMAIN us[k]
        THEN [transform_user_state(us[k]) EXCEPT
                 !.neighborhood = transform_user_state(us[k - 1]).neighborhood]
        ELSE transform_user_state(us[k])]

\* line 420: user_cluster_map
user_cluster_map(us) == [k \in 1..Len(us) |-> transform_user_state(us[k])]

UserIds == {"user_01_student", "user_02_retired", "user_03_expat", "user_04"}

Availabilities == {"FREE", "BUSY_BUT_ENDING_SOON", "TRANSITIONING", "BUSY"}

StressLevels ==
    {"HIGH", "CRITICAL_HIGH", "ELEVATED", "MODERATE", "FATIGUED", "LOW"}

RiskFlagLists == SUBSET {"ISOLATION_RISK", "BURNOUT_RISK"}

SentryAnalyses ==
    {Restrict([availability |-> a, stress_level |-> st, risk_flags |-> r], keys) :
        a \in Availabilities, st \in StressLevels, r \in RiskFlagLists,
        keys \in SUBSET {"availability", "stress_level", "risk_flags"}}

\* one user with any analysis, at home or with no location
SentryUsers ==
    {Restrict([user_id |-> "user_01_student", sentry_analysis |-> sa,
               current_location |-> [name |-> "Home (Schwabing)"]], keys) :
        sa \in SentryAnalyses,
        keys \in {{"user_id", "sentry_analysis", "current_location"},
                  {"user_id", "sentry_analysis"}}}

\* users with any id and location name, with or without an analysis
LocatedUsers ==
    {Restrict([user_id |-> u, current_location |-> l,
               sentry_analysis |-> [stress_level |-> "MODERATE"]], keys) :
        u \in UserIds,
        l \in {EmptyDict} \cup {[name |-> n] : n \in LocationNames},
        keys \in {{"user_id", "current_location", "sentry_analysis"},
                  {"user_id", "current_location"}, {"current_location"}}}

\* users_sentry_state holds up to MaxUsers users
MaxUsers == 3

\* five users: with and without id, analysis and location, two with one id
ClusterUsers ==
    {[user_id |-> "user_01_student",
      sentry_analysis |-> [stress_level |-> "HIGH", availability |-> "FREE"],
      current_location |-> [name |-> "Home (Schwabing)"]],
     [user_id |-> "user_02_retired",
      sentry_analysis |-> [risk_flags |-> {"ISOLATION_RISK"}]],
     [user_id |-> "user_03_expat",
      current_location |-> [name |-> "Lost Weekend Cafe"]],
     [sentry_analysis |-> [stress_level |-> "MODERATE"],
      current_location |-> EmptyDict],
     [user_id |-> "user_01_student",
      sentry_analysis |-> [stress_level |-> "LOW"]]}

ClusterLists == UNION {[1..n -> ClusterUsers] : n \in 2..MaxUsers}

InitTransform ==
    /\ pc = "transform_call"
    /\ SentryIdle
    /\ HandlerIdle
    /\ users \in {<<>>} \cup {<<u>> : u \in SentryUsers \cup LocatedUsers}
                 \cup ClusterLists
    /\ users_map = <<>>
    /\ global_context = EmptyDict
    /\ user_locs = EmptyDict
    /\ i = 1
    /\ j = 1
    /\ seen_pairs = {}
    /\ results = <<>>
    /\ loc_a = None
    /\ loc_b = None
    /\ prox = Unbound
    /\ events = <<>>
    /\ e = 1
    /\ curated = <<>>
    /\ ContextIdle

\* line 420
TransformUsers ==
    /\ pc = "transform_call"
    /\ users_map' = user_cluster_map(users)
    /\ pc' = "transform_done"
    /\ UNCHANGED <<global_context, analyzeVars, contextVars, sentryVars, handlerVars, events, e, curated>>

NextTransform == TransformUsers

SpecTransform == InitTransform /\ [][NextTransform]_vars

----------------------------------------------------------------------------
(* curate_opportunities *)

\* line 278: the loop is at an event
InEvents == pc = "curate_loop" /\ e <= Len(events)

\* line 278
event == events[e]

\* line 280: None when absent
event_id(ev) == Get(ev, "identifier", NoneStr)

\* line 281: None when absent
title(ev) == Get(ev, "name", NoneStr)

\* line 282
event_type(ev) == Get(ev, "@type", "")

\* line 283
description(ev) == Get(ev, "description", "")

\* lines 284-285
location_name(ev) == Get(Get(ev, "location", EmptyDict), "name", "Unknown Area")

\* The titles, descriptions and types of the model, each with the words
\* that lines 288-316 look for in its lower case.
KeywordsIn(text) ==
    CASE text = "Isar Walking Group"       -> {"walking"}
      [] text = "English Stammtisch"       -> {"english"}
      [] text = "Expat meetup in the park" -> {"expat", "park"}
      [] text = "Expats welcome"           -> {"expat"}
      [] text = "OutdoorEvent"             -> {"outdoor"}
      [] OTHER                             -> {}

\* line 290
OutdoorKeywords == {"walking", "park", "outdoor", "garden", "hiking", "nature"}

\* line 288: the words in f"{title} {description} {event_type}".lower()
event_text(ev) ==
    KeywordsIn(title(ev)) \cup KeywordsIn(description(ev))
        \cup KeywordsIn(event_type(ev))

\* lines 289-290
is_outdoor(ev) == event_text(ev) \cap OutdoorKeywords # {}

env_match_any_context(ctx, ev) ==
    IF is_outdoor(ev) THEN "MISMATCH" ELSE "MATCHES_CURRENT_CONDITIONS"

\* lines 292-296
env_match(ctx, ev) ==
    IF ctx["outdoor_viability"] = "INDOOR_ONLY" /\ is_outdoor(ev)
    THEN "MISMATCH"
    ELSE "MATCHES_CURRENT_CONDITIONS"

\* line 314: "expat" in description.lower() and uid == "user_03_expat"
ExpatMatch(ev, user) ==
    "expat" \in KeywordsIn(description(ev)) /\ user["user_id"] = "user_03_expat"

\* line 316: title.lower() with title None raises AttributeError; it is
\* evaluated for a SocialEvent and a user that line 314 does not match
TitleAttributeError(ev, us) ==
    /\ event_type(ev) = "SocialEvent"
    /\ "name" \notin DOMAIN ev
    /\ \E k \in 1..Len(us) : ~ExpatMatch(ev, us[k])

score_stress_relief_high(ev, user) ==
    IF event_type(ev) = "SportsEvent" /\ user["wellness_need"] = "STRESS_RELIEF"
    THEN "HIGH"
    ELSE IF event_type(ev) = "SocialEvent" /\ ExpatMatch(ev, user) THEN "HIGH"
    ELSE "LOW"

\* lines 304-325
score(ev, user) ==
    LET uid == user["user_id"]
        need == user["wellness_need"]
    IN  IF event_type(ev) = "SportsEvent"
        THEN IF uid = "user_01_student" /\ need = "STRESS_RELIEF" THEN "HIGH"
             ELSE IF need = "STRESS_RELIEF" THEN "MEDIUM"
             ELSE "LOW"
        ELSE IF event_type(ev) = "SocialEvent"
        THEN IF ExpatMatch(ev, user) THEN "HIGH"
             ELSE IF "english" \in KeywordsIn(title(ev)) /\ uid = "user_03_expat"
                  THEN "HIGH"
             ELSE IF uid = "user_01_student" THEN "MEDIUM"
             ELSE IF need = "SOCIAL_CONNECTION" THEN "MEDIUM"
             ELSE "LOW"
        ELSE IF event_type(ev) = "MusicEvent"
        THEN IF uid = "user_02_retired" THEN "MEDIUM" ELSE "LOW"
        ELSE "LOW"

\* lines 300-327: suitability[uid] = score, the last user of a uid staying
suitability(ev, us) ==
    [uid \in {us[k]["user_id"] : k \in 1..Len(us)} |->
        LET last == CHOOSE k \in 1..Len(us) :
                        /\ us[k]["user_id"] = uid
                        /\ \A m \in 1..Len(us) : us[m]["user_id"] = uid => m <= k
        IN  score(ev, us[last])]

filtered_suitability_all(suit) == suit

\* line 330
filtered_suitability(suit) ==
    Restrict(suit, {uid \in DOMAIN suit : suit[uid] # "LOW"})

\* lines 350-360
map_activity_category(type) ==
    CASE type = "SocialEvent"    -> "SOCIAL_GATHERING"
      [] type = "SportsEvent"    -> "ACTIVE_PHYSICAL"
      [] type = "MusicEvent"     -> "CULTURAL_PASSIVE"
      [] type = "TheaterEvent"   -> "CULTURAL_PASSIVE"
      [] type = "EducationEvent" -> "COMMUNITY_SUPPORT"
      [] type = "VolunteerEvent" -> "COMMUNITY_SUPPORT"
      [] OTHER                   -> "SOCIAL_GATHERING"

\* lines 332-343: event_item, with "reason" only on a MISMATCH
event_item(ev, ctx, us) ==
    Restrict([event_id          |-> event_id(ev),
              title             |-> title(ev),
              activity_type     |-> map_activity_category(event_type(ev)),
              environment_match |-> env_match(ctx, ev),
              location_context  |-> location_name(ev),
              suitability       |-> filtered_suitability(suitability(ev, us)),
              reason            |-> "Outdoor event during Rain"],
             {"event_id", "title", "activity_type", "environment_match",
              "location_context", "suitability"}
             \cup (IF env_match(ctx, ev) = "MISMATCH" THEN {"reason"} ELSE {}))

curated_append_unless_empty(cur, item) ==
    IF DOMAIN item["suitability"] = {} THEN cur ELSE Append(cur, item)

\* line 345
curated_append(cur, item) == Append(cur, item)

\* an event dict holding the keys given, in the Schema.org format of line 279
Event(id, name, type, desc, loc, keys) ==
    [k \in keys |->
        CASE k = "identifier"  -> id
          [] k = "name"        -> name
          [] k = "@type"       -> type
          [] k = "description" -> desc
          [] k = "location"    -> loc]

EventKeys == {"identifier", "name", "@type", "description", "location"}

EventTypes ==
    {"SportsEvent", "SocialEvent", "MusicEvent", "TheaterEvent",
     "EducationEvent", "OutdoorEvent"}

Titles == {"Isar Walking Group", "English Stammtisch", "Jazz Night"}

Descriptions == {"Expat meetup in the park", "Expats welcome", "Indoor session"}

\* every combination of fields, each field present or absent
AnyEvents ==
    {Event("evt_1", n, t, d, l, EventKeys \ drop) :
        n \in Titles, t \in EventTypes, d \in Descriptions,
        l \in {EmptyDict, [name |-> "Olympiapark"]},
        drop \in {{}, {"identifier"}, {"name"}, {"@type"}, {"description"},
                  {"location"}, {"name", "description"},
                  {"name", "@type", "description"}, EventKeys}}

\* a few events, told apart by their identifiers
FewEvents ==
    {Event("evt_1", "Isar Walking Group", "SportsEvent", "Indoor session",
           EmptyDict, EventKeys \ {"location"}),
     Event("evt_2", "English Stammtisch", "SocialEvent", "Expats welcome",
           EmptyDict, EventKeys),
     Event("evt_3", "Jazz Night", "MusicEvent", "Expat meetup in the park",
           EmptyDict, EventKeys \ {"name", "location"}),
     Event("evt_4", "Jazz Night", "SocialEvent", "Indoor session",
           EmptyDict, {"identifier", "@type"})}

\* what process_global_context returns, by outdoor viability
Contexts ==
    {[outdoor_viability |-> o, transit_friction |-> "LOW_FRICTION",
      temporal_phase |-> "UNKNOWN",
      implication |-> generate_implication(o, "LOW_FRICTION")] :
        o \in {"OPTIMAL", "VIABLE_WITH_GEAR", "INDOOR_ONLY"}}

\* a raw user with the stress level and risk flags given
RawUser(uid, stress, flags, keys) ==
    Restrict([user_id |-> uid,
              sentry_analysis |-> [stress_level |-> stress, risk_flags |-> flags]],
             keys)

\* users whose wellness_need is STRESS_RELIEF, SOCIAL_CONNECTION or
\* MAINTENANCE, with any id or none
RawUsers ==
    {RawUser(uid, st, fl, keys) :
        uid \in UserIds, st \in {"MODERATE", "LOW"},
        fl \in {{}, {"ISOLATION_RISK"}},
        keys \in {{"user_id", "sentry_analysis"}, {"sentry_analysis"}}}

\* lists of users with distinct ids, as long as n at most
UserLists(n) ==
    {<<>>} \cup {<<u>> : u \in RawUsers}
    \cup {us \in {<<u, v>> : u, v \in RawUsers} :
            n >= 2 /\ Get(us[1], "user_id", NoneStr) # Get(us[2], "user_id", NoneStr)}

MaxEvents == 3

EventLists ==
    UNION {[1..n -> FewEvents] : n \in 0..MaxEvents}

CurateLocals ==
    /\ pc = "curate_loop"
    /\ SentryIdle
    /\ HandlerIdle
    /\ users_map = user_cluster_map(users)
    /\ e = 1
    /\ curated = <<>>
    /\ user_locs = EmptyDict
    /\ i = 1
    /\ j = 1
    /\ seen_pairs = {}
    /\ results = <<>>
    /\ loc_a = None
    /\ loc_b = None
    /\ prox = Unbound
    /\ ContextIdle

\* one event of any shape, for no user or one
InitOneEvent ==
    /\ events \in {<<ev>> : ev \in AnyEvents}
    /\ global_context \in Contexts
    /\ users \in UserLists(1)
    /\ CurateLocals

\* up to MaxEvents events for the three named users
InitEvents ==
    /\ events \in EventLists
    /\ global_context \in
           {c \in Contexts : c.outdoor_viability \in {"OPTIMAL", "INDOOR_ONLY"}}
    /\ users \in {<<RawUser("user_01_student", "MODERATE", {}, {"user_id", "sentry_analysis"}),
                    RawUser("user_03_expat", "LOW", {}, {"user_id", "sentry_analysis"})>>,
                  <<RawUser("user_03_expat", "MODERATE", {"ISOLATION_RISK"},
                            {"user_id", "sentry_analysis"})>>}
    /\ CurateLocals

\* two users with distinct ids and one event that has its title
InitTwoUsers ==
    /\ events \in {<<Event("evt_1", "English Stammtisch", t, d, EmptyDict,
                           EventKeys)>> :
                      t \in {"SportsEvent", "SocialEvent", "MusicEvent"},
                      d \in {"Expats welcome", "Indoor session"}}
    /\ global_context \in {c \in Contexts : c.outdoor_viability = "OPTIMAL"}
    /\ users \in UserLists(2)
    /\ CurateLocals

InitCurate == InitOneEvent \/ InitEvents \/ InitTwoUsers

event_after_item_flagged(ev) ==
    [k \in DOMAIN ev \cup {"is_outdoor"} |->
        IF k = "is_outdoor" THEN is_outdoor(ev) ELSE ev[k]]

\* lines 279-345: the event after the iteration that read it; every access
\* is a .get and the flags and scores are kept in locals
event_after_item(ev) == ev

\* lines 278-345: one iteration of the loop, appending the event's item
CurateEvent ==
    /\ InEvents
    /\ ~TitleAttributeError(event, users_map)
    /\ curated' = curated_append(curated, event_item(event, global_context, users_map))
    /\ events' = [events EXCEPT ![e] = event_after_item(event)]
    /\ e' = e + 1
    /\ UNCHANGED <<pc, global_context, analyzeVars, contextVars, sentryVars, handlerVars, users_map>>

\* line 316: title.lower() on a SocialEvent without "name"
RaiseTitleError ==
    /\ InEvents
    /\ TitleAttributeError(event, users_map)
    /\ pc' = "AttributeError"
    /\ UNCHANGED <<global_context, analyzeVars, contextVars, sentryVars, handlerVars, curateVars>>

\* line 347
ReturnCurated ==
    /\ pc = "curate_loop"
    /\ e > Len(events)
    /\ pc' = "curate_done"
    /\ UNCHANGED <<global_context, analyzeVars, contextVars, sentryVars, handlerVars, curateVars>>

NextCurate ==
    \/ CurateEvent
    \/ RaiseTitleError
    \/ ReturnCurated

SpecCurate == InitCurate /\ [][NextCurate]_vars

----------------------------------------------------------------------------
(* The social mode as a whole: the steps that lambda_handler runs at lines *)
(* 418-426, each from the inputs given above.                              *)

InitSocial == Init \/ InitProximity \/ InitContext \/ InitCurate

NextSocial == Next \/ NextProximity \/ NextContext \/ NextCurate

SpecSocial == InitSocial /\ [][NextSocial]_vars

----------------------------------------------------------------------------
(* The wellness categorizers of flow_components/sentry_categorization.py.  *)
(* Hours (total_hours, unproductive_time_hours, home_time_hours) are       *)
(* counted in hundredths of an hour, instants in minutes. A categorizer    *)
(* returns its dict, or Raised(x) when it ends with the exception x.       *)

\* None where it is compared with numbers (a null age, pulse or total_hours)
NoneNum == 0 - 9999

\* the call ended with the exception named
Raised(exception) == [raised |-> exception]

HasRaised(value) == "raised" \in DOMAIN value

\* The occupations, location names, event summaries and app categories of
\* the model, each with the words that the categorizers look for in its
\* lower case.
SentryKeywordsIn(text) ==
    CASE text = "University Student"             -> {"student", "university"}
      [] text = "Retired teacher"                -> {"retired"}
      [] text = "Expat engineer"                 -> {"expat"}
      [] text = "Pensioner"                      -> {"pension"}
      [] text = "Home"                           -> {"home"}
      [] text = "TU University Library"          -> {"university"}
      [] text = "Home Office"                    -> {"home", "office"}
      [] text = "Englischer Garten"              -> {"englischer garten"}
      [] text = "City Park"                      -> {"park"}
      [] text = "Man vs Machine Coffee Roasters" -> {"coffee", "roasters"}
      [] text = "Cafe Frischhut"                 -> {"cafe"}
      [] text = "Sports Bar"                     -> {"bar"}
      [] text = "Math Exam"                      -> {"exam"}
      [] text = "Doctor appointment"             -> {"doctor", "appointment"}
      [] text = "Coffee with Anna"               -> {"coffee"}
      [] text = "Train to Berlin"                -> {"train"}
      [] text = "Contest"                        -> {"test"}
      [] text = "Social Networking"              -> {"work", "social", "networking"}
      [] text = "News & Opinion"                 -> {"news"}
      [] text = "Software Development"           -> {"development"}
      [] text = "Entertainment"                  -> {"entertainment"}
      [] OTHER -> {}

\* `kw in text.lower()`
Has(text, kw) == kw \in SentryKeywordsIn(text)

\* lines 19-27; line 19 raises on a null occupation
life_stage(filtered) ==
    LET occupation == Get(filtered, "occupation", "")
    IN  IF occupation = NoneStr THEN Raised("AttributeError")
        ELSE IF Has(occupation, "student") \/ Has(occupation, "university")
             THEN [life_stage |-> "STUDENT"]
        ELSE IF Has(occupation, "retired") \/ Has(occupation, "pension")
             THEN [life_stage |-> "RETIRED"]
        ELSE IF Has(occupation, "expat") \/ Has(occupation, "expatriate")
             THEN [life_stage |-> "EXPAT"]
        ELSE [life_stage |-> "PROFESSIONAL"]

\* lines 30-36; line 31 raises on a null age
mobility_profile(filtered) ==
    LET age == Get(filtered, "user_age", 0)
    IN  IF age = NoneNum THEN Raised("TypeError")
        ELSE IF age >= 80 THEN [mobility_profile |-> "LIMITED_MOBILITY"]
        ELSE IF age >= 70 THEN [mobility_profile |-> "MODERATE"]
        ELSE [mobility_profile |-> "UNRESTRICTED"]

\* lines 5-43
categorize_user_profile(filtered) ==
    IF HasRaised(life_stage(filtered)) THEN life_stage(filtered)
    ELSE IF HasRaised(mobility_profile(filtered)) THEN mobility_profile(filtered)
    ELSE [life_stage                |-> life_stage(filtered).life_stage,
          mobility_profile          |-> mobility_profile(filtered).mobility_profile,
          social_battery_preference |-> "MORNING_PERSON",
          communication_style       |-> "FORMAL_EMPATHETIC",
          intervention_level        |-> "SUGGESTIVE"]

\* lines 68-69
avg_stress(filtered) ==
    Get(Get(filtered, "stress_data", EmptyDict), "avg_stress_level", 0)

\* lines 71-78
stress_level(stress) ==
    IF stress < 30 THEN "RESTING"
    ELSE IF stress < 60 THEN "NORMAL"
    ELSE IF stress < 80 THEN "ELEVATED"
    ELSE "CRITICAL_HIGH"

\* lines 81-82
hr_elevation(filtered) ==
    Get(Get(filtered, "heart_rate", EmptyDict), "hr_elevation_above_resting", 0)

heart_rate_context_from_sixty(elevation, stress) ==
    IF elevation < 5 THEN "RESTING"
    ELSE IF elevation < 20 THEN "NORMAL"
    ELSE IF stress >= 60 THEN "ELEVATED_SEDENTARY"
    ELSE "ELEVATED_ACTIVE"

\* lines 84-91
heart_rate_context(elevation, stress) ==
    IF elevation < 5 THEN "RESTING"
    ELSE IF elevation < 20 THEN "NORMAL"
    ELSE IF stress > 60 THEN "ELEVATED_SEDENTARY"
    ELSE "ELEVATED_ACTIVE"

\* line 94
health_scores(filtered) == Get(filtered, "health_scores", EmptyDict)

\* lines 95-103
exertion_status(scores) ==
    LET activity_score == Get(scores, "activity", 50)
        recovery_score == Get(scores, "recovery", 50)
    IN  IF activity_score < 30 THEN "SEDENTARY"
        ELSE IF activity_score > 80 /\ recovery_score < 40
             THEN "OVER_EXERTION_RISK"
        ELSE "OPTIMAL"

\* lines 106-113
sleep_debt(scores) ==
    LET sleep_score == Get(scores, "sleep", 50)
    IN  IF sleep_score >= 70 THEN "WELL_RESTED"
        ELSE IF sleep_score >= 50 THEN "MILD_DEBT"
        ELSE "SEVERE_DEBT"

\* lines 116-122: hydration.get("status", "").upper() == "DEHYDRATED"
hydration_status(filtered) ==
    LET status == Get(Get(filtered, "hydration", EmptyDict), "status", "")
    IN  IF status \in {"DEHYDRATED", "dehydrated", "Dehydrated"}
        THEN "DEHYDRATED"
        ELSE "HYDRATED"

\* lines 65-124
physiological_state(filtered) ==
    [stress_level       |-> stress_level(avg_stress(filtered)),
     heart_rate_context |-> heart_rate_context(hr_elevation(filtered),
                                               avg_stress(filtered)),
     exertion_status    |-> exertion_status(health_scores(filtered)),
     sleep_debt         |-> sleep_debt(health_scores(filtered)),
     hydration_status   |-> hydration_status(filtered)]

\* line 130
productivity(filtered) == Get(filtered, "productivity_analysis", EmptyDict)

\* lines 136-143, hours in hundredths
digital_state(pulse, total_hours, unproductive_hours) ==
    IF total_hours < 200 THEN "DISCONNECTED"
    ELSE IF pulse >= 60 /\ total_hours < 1000 THEN "FLOW_STATE"
    ELSE IF unproductive_hours > 500 THEN "DOOMSCROLLING"
    ELSE "FRAGMENTED"

\* lines 146-151
productivity_pulse(pulse) ==
    IF pulse >= 60 THEN "PRODUCTIVE"
    ELSE IF pulse >= 40 THEN "NEUTRAL"
    ELSE "DISTRACTED"

\* line 157: max(categories, key=time_spent_seconds), the first of the largest
dominant(categories) ==
    LET time(k) == Get(categories[k], "time_spent_seconds", 0)
        first == CHOOSE k \in 1..Len(categories) :
                     /\ \A m \in 1..Len(categories) : time(m) <= time(k)
                     /\ \A m \in 1..(k - 1) : time(m) < time(k)
    IN  categories[first]

\* lines 154-171
dominant_app_category(categories) ==
    IF Len(categories) = 0 THEN "UTILITY"
    ELSE LET category_name == Get(dominant(categories), "category", "")
         IN  IF Has(category_name, "social") \/ Has(category_name, "networking")
             THEN "SOCIAL_MEDIA"
             ELSE IF Has(category_name, "news") THEN "NEWS"
             ELSE IF \/ Has(category_name, "work")
                     \/ Has(category_name, "development")
                     \/ Has(category_name, "business")
                  THEN "WORK"
             ELSE IF Has(category_name, "entertainment")
                     \/ Has(category_name, "video")
                  THEN "ENTERTAINMENT"
             ELSE "UTILITY"

\* lines 127-173; lines 136-146 raise on a null total_hours or pulse
digital_hygiene(filtered) ==
    LET pulse == Get(productivity(filtered), "productivity_pulse", 50)
        total_hours == Get(productivity(filtered), "total_hours", 0)
        unproductive_hours ==
            Get(productivity(filtered), "unproductive_time_hours", 0)
        categories == Get(productivity(filtered), "category_breakdown", <<>>)
    IN  IF total_hours = NoneNum \/ pulse = NoneNum THEN Raised("TypeError")
        ELSE [digital_state |->
                  digital_state(pulse, total_hours, unproductive_hours),
              productivity_pulse    |-> productivity_pulse(pulse),
              dominant_app_category |-> dominant_app_category(categories)]

\* lines 46-175
categorize_physiological_and_digital(filtered) ==
    IF HasRaised(digital_hygiene(filtered)) THEN digital_hygiene(filtered)
    ELSE [physiological_state |-> physiological_state(filtered),
          digital_hygiene     |-> digital_hygiene(filtered)]

\* line 198
location_patterns(filtered) == Get(filtered, "location_patterns", EmptyDict)

\* line 199: (location.get("current_location") or "").lower(); the place is
\* kept as written, the keyword table reads its lower case
current_location(filtered) ==
    LET name == Get(location_patterns(filtered), "current_location", NoneStr)
    IN  IF name = NoneStr THEN "" ELSE name

\* lines 204-213
location_category(place) ==
    IF Has(place, "home") THEN "HOME"
    ELSE IF Has(place, "university") \/ Has(place, "office")
            \/ Has(place, "work")
         THEN "WORK_UNIVERSITY"
    ELSE IF Has(place, "park") \/ Has(place, "garden") \/ Has(place, "nature")
            \/ Has(place, "englischer garten")
         THEN "NATURE"
    ELSE IF Has(place, "cafe") \/ Has(place, "restaurant") \/ Has(place, "bar")
            \/ Has(place, "coffee") \/ Has(place, "roasters")
         THEN "THIRD_PLACE"
    ELSE "TRANSIT"

\* lines 216-219
mobility_mode(filtered) ==
    IF Get(location_patterns(filtered), "total_places_visited", 0) <= 1
    THEN "STATIONARY"
    ELSE "WALKING"

\* lines 222-227, home_time_hours in hundredths
social_environment_inferred(filtered, place) ==
    IF Get(location_patterns(filtered), "home_time_hours", 0) > 2000
    THEN "SOLITARY"
    ELSE IF Has(place, "cafe") \/ Has(place, "restaurant")
            \/ Has(place, "coffee") \/ Has(place, "roasters")
            \/ Has(place, "bar")
         THEN "CROWDED_PUBLIC"
    ELSE "SOLITARY"

\* lines 195-229
spatial_context(filtered) ==
    [location_category |-> location_category(current_location(filtered)),
     mobility_mode     |-> mobility_mode(filtered),
     social_environment_inferred |->
         social_environment_inferred(filtered, current_location(filtered))]

\* line 235
upcoming_events(filtered) == Get(filtered, "upcoming_events", <<>>)

\* A start is [minute |-> t] for an ISO instant, [text |-> s] for a string
\* that fromisoformat rejects ("" is the empty one), None for null.
IsInstant(start) == "minute" \in DOMAIN start

\* `if start_time_str:` at line 247
StartTruthy(start) == start # None /\ start # [text |-> ""]

availability_at_hour_inclusive(start, at) ==
    LET time_until == start.minute - at
    IN  IF time_until < 0 THEN "BUSY"
        ELSE IF time_until <= 60 THEN "TRANSITION_BUFFER"
        ELSE "FREE"

\* lines 249-258; at is datetime.now, in minutes like the start
availability_at(start, at) ==
    LET time_until == start.minute - at
    IN  IF time_until < 0 THEN "BUSY"
        ELSE IF time_until < 60 THEN "TRANSITION_BUFFER"
        ELSE "FREE"

\* lines 238-262
current_availability(upcoming, at) ==
    IF Len(upcoming) = 0 THEN "FREE"
    ELSE LET first_event == upcoming[1]
             start_time_str == Get(first_event, "start", None)
         IN  IF first_event = EmptyDict THEN "FREE"
             ELSE IF ~StartTruthy(start_time_str) THEN "FREE"
             ELSE IF IsInstant(start_time_str)
                  THEN availability_at(start_time_str, at)
             ELSE "FREE"

\* lines 271-280
event_type_of(summary) ==
    IF Has(summary, "exam") \/ Has(summary, "test") \/ Has(summary, "work")
       \/ Has(summary, "meeting")
    THEN "WORK_ACADEMIC"
    ELSE IF Has(summary, "doctor") \/ Has(summary, "medical")
            \/ Has(summary, "health") \/ Has(summary, "appointment")
         THEN "MEDICAL"
    ELSE IF Has(summary, "coffee") \/ Has(summary, "lunch")
            \/ Has(summary, "dinner") \/ Has(summary, "party")
         THEN "SOCIAL"
    ELSE IF Has(summary, "flight") \/ Has(summary, "train")
            \/ Has(summary, "travel")
         THEN "LOGISTICAL"
    ELSE "SOCIAL"

\* lines 265-280; line 269 raises on a null summary
upcoming_event_type(upcoming) ==
    IF Len(upcoming) = 0 THEN [upcoming_event_type |-> "NONE"]
    ELSE LET summary == Get(upcoming[1], "summary", "")
         IN  IF summary = NoneStr THEN Raised("AttributeError")
             ELSE [upcoming_event_type |-> event_type_of(summary)]

\* lines 283-289
schedule_density(upcoming) ==
    IF Len(upcoming) = 0 THEN "OPEN_DAY"
    ELSE IF Len(upcoming) <= 3 THEN "BALANCED"
    ELSE "PACKED_DAY"

schedule_context_past_event_none(upcoming, at) ==
    [current_availability |-> current_availability(upcoming, at),
     upcoming_event_type  |->
         IF current_availability(upcoming, at) = "BUSY"
         THEN "NONE"
         ELSE upcoming_event_type(upcoming).upcoming_event_type,
     schedule_density     |-> schedule_density(upcoming)]

\* lines 231-291
schedule_context(upcoming, at) ==
    [current_availability |-> current_availability(upcoming, at),
     upcoming_event_type  |-> upcoming_event_type(upcoming).upcoming_event_type,
     schedule_density     |-> schedule_density(upcoming)]

\* lines 178-293
categorize_spatial_and_schedule(filtered, at) ==
    IF HasRaised(upcoming_event_type(upcoming_events(filtered)))
    THEN upcoming_event_type(upcoming_events(filtered))
    ELSE [spatial_context  |-> spatial_context(filtered),
          schedule_context |->
              schedule_context(upcoming_events(filtered), at)]

\* lines 296-315
aggregate_categorizations(user_profile, physiological_digital, spatial_schedule) ==
    [user_profile        |-> user_profile,
     physiological_state |->
         Get(physiological_digital, "physiological_state", EmptyDict),
     digital_hygiene     |->
         Get(physiological_digital, "digital_hygiene", EmptyDict),
     spatial_context     |->
         Get(spatial_schedule, "spatial_context", EmptyDict),
     schedule_context    |->
         Get(spatial_schedule, "schedule_context", EmptyDict)]

----------------------------------------------------------------------------
(* The same four steps as the inline nodes of inlinecode_nodes/sentry,     *)
(* each translated from its own file: user_profile_categorization.py,      *)
(* physiological_and_digital_categorization.py,                            *)
(* spatial_and_schedule_categorization.py, aggregate_categorization.py.    *)

node_categorize_user_profile_over_eighty(filtered) ==
    LET occupation == Get(filtered, "occupation", "")
        age == Get(filtered, "user_age", 0)
    IN  IF occupation = NoneStr THEN Raised("AttributeError")
        ELSE IF age = NoneNum THEN Raised("TypeError")
        ELSE [life_stage                |-> life_stage(filtered).life_stage,
              mobility_profile          |->
                  IF age > 80 THEN "LIMITED_MOBILITY"
                  ELSE IF age >= 70 THEN "MODERATE"
                  ELSE "UNRESTRICTED",
              social_battery_preference |-> "MORNING_PERSON",
              communication_style       |-> "FORMAL_EMPATHETIC",
              intervention_level        |-> "SUGGESTIVE"]

\* user_profile_categorization.py lines 3-44
node_categorize_user_profile(filtered) ==
    LET occupation == Get(filtered, "occupation", "")
        age == Get(filtered, "user_age", 0)
        stage == IF Has(occupation, "student") \/ Has(occupation, "university")
                 THEN "STUDENT"
                 ELSE IF Has(occupation, "retired")
                         \/ Has(occupation, "pension")
                      THEN "RETIRED"
                 ELSE IF Has(occupation, "expat")
                         \/ Has(occupation, "expatriate")
                      THEN "EXPAT"
                 ELSE "PROFESSIONAL"
        mobility == IF age >= 80 THEN "LIMITED_MOBILITY"
                    ELSE IF age >= 70 THEN "MODERATE"
                    ELSE "UNRESTRICTED"
    IN  IF occupation = NoneStr THEN Raised("AttributeError")
        ELSE IF age = NoneNum THEN Raised("TypeError")
        ELSE [life_stage                |-> stage,
              mobility_profile          |-> mobility,
              social_battery_preference |-> "MORNING_PERSON",
              communication_style       |-> "FORMAL_EMPATHETIC",
              intervention_level        |-> "SUGGESTIVE"]

\* physiological_and_digital_categorization.py lines 25-84
node_physiological_state(filtered) ==
    LET stress == Get(Get(filtered, "stress_data", EmptyDict),
                      "avg_stress_level", 0)
        elevation == Get(Get(filtered, "heart_rate", EmptyDict),
                         "hr_elevation_above_resting", 0)
        scores == Get(filtered, "health_scores", EmptyDict)
        activity_score == Get(scores, "activity", 50)
        recovery_score == Get(scores, "recovery", 50)
        sleep_score == Get(scores, "sleep", 50)
        status == Get(Get(filtered, "hydration", EmptyDict), "status", "")
    IN  [stress_level |->
             IF stress < 30 THEN "RESTING"
             ELSE IF stress < 60 THEN "NORMAL"
             ELSE IF stress < 80 THEN "ELEVATED"
             ELSE "CRITICAL_HIGH",
         heart_rate_context |->
             IF elevation < 5 THEN "RESTING"
             ELSE IF elevation < 20 THEN "NORMAL"
             ELSE IF stress > 60 THEN "ELEVATED_SEDENTARY"
             ELSE "ELEVATED_ACTIVE",
         exertion_status |->
             IF activity_score < 30 THEN "SEDENTARY"
             ELSE IF activity_score > 80 /\ recovery_score < 40
                  THEN "OVER_EXERTION_RISK"
             ELSE "OPTIMAL",
         sleep_debt |->
             IF sleep_score >= 70 THEN "WELL_RESTED"
             ELSE IF sleep_score >= 50 THEN "MILD_DEBT"
             ELSE "SEVERE_DEBT",
         hydration_status |->
             IF status \in {"DEHYDRATED", "dehydrated", "Dehydrated"}
             THEN "DEHYDRATED"
             ELSE "HYDRATED"]

\* physiological_and_digital_categorization.py lines 114-131
node_dominant_app_category(categories) ==
    LET time(k) == Get(categories[k], "time_spent_seconds", 0)
        first == CHOOSE k \in 1..Len(categories) :
                     /\ \A m \in 1..Len(categories) : time(m) <= time(k)
                     /\ \A m \in 1..(k - 1) : time(m) < time(k)
        category_name == Get(categories[first], "category", "")
    IN  IF Len(categories) = 0 THEN "UTILITY"
        ELSE IF Has(category_name, "social") \/ Has(category_name, "networking")
             THEN "SOCIAL_MEDIA"
        ELSE IF Has(category_name, "news") THEN "NEWS"
        ELSE IF Has(category_name, "work") \/ Has(category_name, "development")
                \/ Has(category_name, "business")
             THEN "WORK"
        ELSE IF Has(category_name, "entertainment")
                \/ Has(category_name, "video")
             THEN "ENTERTAINMENT"
        ELSE "UTILITY"

\* physiological_and_digital_categorization.py lines 87-133
node_digital_hygiene(filtered) ==
    LET analysis == Get(filtered, "productivity_analysis", EmptyDict)
        pulse == Get(analysis, "productivity_pulse", 50)
        total_hours == Get(analysis, "total_hours", 0)
        unproductive_hours == Get(analysis, "unproductive_time_hours", 0)
    IN  IF total_hours = NoneNum \/ pulse = NoneNum THEN Raised("TypeError")
        ELSE [digital_state |->
                  IF total_hours < 200 THEN "DISCONNECTED"
                  ELSE IF pulse >= 60 /\ total_hours < 1000 THEN "FLOW_STATE"
                  ELSE IF unproductive_hours > 500 THEN "DOOMSCROLLING"
                  ELSE "FRAGMENTED",
              productivity_pulse |->
                  IF pulse >= 60 THEN "PRODUCTIVE"
                  ELSE IF pulse >= 40 THEN "NEUTRAL"
                  ELSE "DISTRACTED",
              dominant_app_category |->
                  node_dominant_app_category(
                      Get(analysis, "category_breakdown", <<>>))]

\* physiological_and_digital_categorization.py lines 3-135
node_categorize_physiological_and_digital(filtered) ==
    IF HasRaised(node_digital_hygiene(filtered))
    THEN node_digital_hygiene(filtered)
    ELSE [physiological_state |-> node_physiological_state(filtered),
          digital_hygiene     |-> node_digital_hygiene(filtered)]

\* spatial_and_schedule_categorization.py lines 27-58; the caller has
\* excluded the null current_location, on which line 28 raises
node_spatial_context(filtered) ==
    LET location == Get(filtered, "location_patterns", EmptyDict)
        place == Get(location, "current_location", "")
        home_time == Get(location, "home_time_hours", 0)
        places_visited == Get(location, "total_places_visited", 0)
    IN  [location_category |->
             IF Has(place, "home") THEN "HOME"
             ELSE IF Has(place, "university") \/ Has(place, "office")
                     \/ Has(place, "work")
                  THEN "WORK_UNIVERSITY"
             ELSE IF Has(place, "park") \/ Has(place, "garden")
                     \/ Has(place, "nature")
                  THEN "NATURE"
             ELSE IF Has(place, "cafe") \/ Has(place, "restaurant")
                     \/ Has(place, "bar")
                  THEN "THIRD_PLACE"
             ELSE "TRANSIT",
         mobility_mode |->
             IF places_visited <= 1 THEN "STATIONARY" ELSE "WALKING",
         social_environment_inferred |->
             IF home_time > 2000 THEN "SOLITARY"
             ELSE IF Has(place, "cafe") \/ Has(place, "restaurant")
                  THEN "CROWDED_PUBLIC"
             ELSE "SOLITARY"]

\* spatial_and_schedule_categorization.py lines 67-91
node_current_availability(upcoming, at) ==
    IF Len(upcoming) = 0 THEN "FREE"
    ELSE LET first_event == upcoming[1]
             start_time_str == Get(first_event, "start", None)
             time_until == start_time_str.minute - at
         IN  IF first_event = EmptyDict THEN "FREE"
             ELSE IF ~StartTruthy(start_time_str) THEN "FREE"
             ELSE IF ~IsInstant(start_time_str) THEN "FREE"
             ELSE IF time_until < 0 THEN "BUSY"
             ELSE IF time_until < 60 THEN "TRANSITION_BUFFER"
             ELSE "FREE"

\* spatial_and_schedule_categorization.py lines 94-109; the caller has
\* excluded the null summary, on which line 98 raises
node_upcoming_event_type(upcoming) ==
    LET summary == Get(upcoming[1], "summary", "")
    IN  IF Len(upcoming) = 0 THEN "NONE"
        ELSE IF Has(summary, "exam") \/ Has(summary, "test")
                \/ Has(summary, "work") \/ Has(summary, "meeting")
             THEN "WORK_ACADEMIC"
        ELSE IF Has(summary, "doctor") \/ Has(summary, "medical")
                \/ Has(summary, "health") \/ Has(summary, "appointment")
             THEN "MEDICAL"
        ELSE IF Has(summary, "coffee") \/ Has(summary, "lunch")
                \/ Has(summary, "dinner") \/ Has(summary, "party")
             THEN "SOCIAL"
        ELSE IF Has(summary, "flight") \/ Has(summary, "train")
                \/ Has(summary, "travel")
             THEN "LOGISTICAL"
        ELSE "SOCIAL"

\* spatial_and_schedule_categorization.py lines 112-118
node_schedule_density(upcoming) ==
    IF Len(upcoming) = 0 THEN "OPEN_DAY"
    ELSE IF Len(upcoming) <= 3 THEN "BALANCED"
    ELSE "PACKED_DAY"

\* spatial_and_schedule_categorization.py lines 4-122
node_categorize_spatial_and_schedule(filtered, at) ==
    LET location == Get(filtered, "location_patterns", EmptyDict)
        upcoming == Get(filtered, "upcoming_events", <<>>)
    IN  IF Get(location, "current_location", "") = NoneStr
        THEN Raised("AttributeError")
        ELSE IF Len(upcoming) > 0
                /\ Get(upcoming[1], "summary", "") = NoneStr
             THEN Raised("AttributeError")
        ELSE [spatial_context  |-> node_spatial_context(filtered),
              schedule_context |->
                  [current_availability |->
                       node_current_availability(upcoming, at),
                   upcoming_event_type  |->
                       node_upcoming_event_type(upcoming),
                   schedule_density     |->
                       node_schedule_density(upcoming)]]

\* aggregate_categorization.py lines 3-28
node_aggregate_categorizations(user_profile, physiological_digital, spatial_schedule) ==
    [user_profile        |-> user_profile,
     physiological_state |->
         Get(physiological_digital, "physiological_state", EmptyDict),
     digital_hygiene     |->
         Get(physiological_digital, "digital_hygiene", EmptyDict),
     spatial_context     |->
         Get(spatial_schedule, "spatial_context", EmptyDict),
     schedule_context    |->
         Get(spatial_schedule, "schedule_context", EmptyDict)]

----------------------------------------------------------------------------
(* extract_stress_indicators of inlinecode_nodes/sentry/data_filtering.py, *)
(* for the keys that the categorizers read: timestamp, hr_range, the heart *)
(* rate summary and samples, blood_pressure, menstruation, the trends, the *)
(* health appointments, top_activities and the status, description and     *)
(* location of an event are written by the code and read by no categorizer.*)
(* A visit's duration is [start |-> m, end |-> m] in minutes, chosen so    *)
(* that the hours have two decimals and round(., 2) changes nothing.       *)

\* d.update(more)
Merge(d, more) ==
    [k \in DOMAIN d \cup DOMAIN more |->
        IF k \in DOMAIN more THEN more[k] ELSE d[k]]

\* `if x:` for a number read with .get(k), None when the key is absent
TruthyNum(d, k) == k \in DOMAIN d /\ d[k] # 0 /\ d[k] # NoneNum

\* lines 44-46
extract_user_profile(raw) ==
    IF "user_profile" \in DOMAIN raw
    THEN [user_age   |-> Get(raw.user_profile, "age", NoneNum),
          occupation |-> Get(raw.user_profile, "occupation", NoneStr)]
    ELSE EmptyDict

\* lines 61-80
extract_heart_rate(daily) ==
    IF "heart_rate_data" \notin DOMAIN daily THEN EmptyDict
    ELSE LET hr_data == daily.heart_rate_data
             summary == Get(hr_data, "summary", EmptyDict)
         IN  IF "summary" \in DOMAIN hr_data
                /\ TruthyNum(summary, "avg_hr_bpm")
                /\ TruthyNum(summary, "resting_hr_bpm")
             THEN [heart_rate |->
                      [hr_elevation_above_resting |->
                           summary.avg_hr_bpm - summary.resting_hr_bpm]]
             ELSE [heart_rate |-> EmptyDict]

\* lines 49-100
extract_terra(raw) ==
    LET terra_data == Get(raw, "terra", EmptyDict)
        daily == Get(terra_data, "current_daily_snapshot", EmptyDict)
        body == Get(terra_data, "body_metrics_latest", EmptyDict)
    IN  Merge(Merge(Merge(
            IF "stress_data" \in DOMAIN daily
            THEN [stress_data |-> daily.stress_data] ELSE EmptyDict,
            extract_heart_rate(daily)),
            IF "scores" \in DOMAIN daily
            THEN [health_scores |-> daily.scores] ELSE EmptyDict),
            IF "hydration_data" \in DOMAIN body
            THEN [hydration |-> body.hydration_data] ELSE EmptyDict)

\* lines 139-145, in hundredths of an hour
unproductive_time_hours(category_breakdown) ==
    LET unproductive(cat) ==
            IF Get(cat, "productivity_score", 0) < 0
            THEN Get(cat, "time_spent_seconds", 0)
            ELSE 0
        sum[k \in 0..Len(category_breakdown)] ==
            IF k = 0 THEN 0
            ELSE sum[k - 1] + unproductive(category_breakdown[k])
    IN  (sum[Len(category_breakdown)] * 100) \div 3600

\* lines 129-145
extract_rescuetime(raw) ==
    IF "rescuetime" \notin DOMAIN raw THEN EmptyDict
    ELSE LET rescue_data == raw.rescuetime
         IN  [productivity_analysis |->
                 [productivity_pulse |->
                      Get(rescue_data, "productivity_pulse", NoneNum),
                  total_hours |-> Get(rescue_data, "total_hours", NoneNum),
                  category_breakdown |->
                      Get(rescue_data, "category_breakdown", <<>>),
                  unproductive_time_hours |->
                      unproductive_time_hours(
                          Get(rescue_data, "category_breakdown", <<>>))]]

\* lines 152-160
event_info(item) ==
    [summary |-> Get(item, "summary", NoneStr),
     start   |-> Get(Get(item, "start", EmptyDict), "dateTime", None)]

\* lines 148-160
extract_gcal(raw) ==
    IF "gcal" \in DOMAIN raw /\ "items" \in DOMAIN raw.gcal
    THEN [upcoming_events |->
             [k \in 1..Len(raw.gcal.items) |-> event_info(raw.gcal.items[k])]]
    ELSE EmptyDict

\* lines 163-195
extract_gmaps(raw) ==
    IF ~("gmaps" \in DOMAIN raw /\ "timelineObjects" \in DOMAIN raw.gmaps)
    THEN EmptyDict
    ELSE LET timeline == raw.gmaps.timelineObjects
             visits == {k \in 1..Len(timeline) :
                           "placeVisit" \in DOMAIN timeline[k]}
             place(k) == timeline[k].placeVisit
             name(k) == Get(Get(place(k), "location", EmptyDict),
                            "name", NoneStr)
             current == {k \in visits :
                            Get(place(k), "isCurrentLocation", FALSE)}
             last == CHOOSE k \in current : \A m \in current : m <= k
             hours(k) ==
                 IF k \in visits /\ "duration" \in DOMAIN place(k)
                    /\ name(k) = "Home"
                 THEN ((place(k).duration.end - place(k).duration.start)
                       * 100) \div 60
                 ELSE 0
             home_time_hours[k \in 0..Len(timeline)] ==
                 IF k = 0 THEN 0 ELSE home_time_hours[k - 1] + hours(k)
         IN  [location_patterns |->
                 [total_places_visited |-> Cardinality(visits),
                  home_time_hours      |-> home_time_hours[Len(timeline)],
                  current_location     |->
                      IF current = {} THEN NoneStr ELSE name(last)]]

\* lines 5-197
extract_stress_indicators(raw) ==
    Merge(Merge(Merge(Merge(extract_user_profile(raw), extract_terra(raw)),
                      extract_rescuetime(raw)),
                extract_gcal(raw)),
          extract_gmaps(raw))

----------------------------------------------------------------------------
(* Inputs of the wellness pipeline: raw payloads that differ from a plain  *)
(* one in one section at a time, and extracts handed over directly.        *)

\* the clock runs from 0 to MaxClock half hours
MaxClock == 4

Instants == {30 * k : k \in 0..MaxClock}

Occupations ==
    {"University Student", "Retired teacher", "Expat engineer", "Pensioner",
     "Software Engineer"}

Ages == {25, 69, 70, 79, 80}

RawProfiles ==
    {Restrict([age |-> a, occupation |-> o], keys) :
        a \in Ages, o \in Occupations, keys \in SUBSET {"age", "occupation"}}

Stresses == {29, 30, 59, 60, 61, 79, 80}

HeartRateSummaries ==
    {EmptyDict, [avg_hr_bpm |-> 70], [avg_hr_bpm |-> 0, resting_hr_bpm |-> 60]}
    \cup {[avg_hr_bpm |-> a, resting_hr_bpm |-> 60] : a \in {64, 65, 79, 80, 95}}

\* the daily snapshot with any stress and heart rate
RawVitals ==
    {Restrict([stress_data |-> [avg_stress_level |-> st],
               heart_rate_data |-> [summary |-> hr]], keys) :
        st \in Stresses, hr \in HeartRateSummaries,
        keys \in {{"stress_data", "heart_rate_data"}, {"heart_rate_data"}}}
    \cup {[stress_data |-> EmptyDict], [heart_rate_data |-> EmptyDict]}

Scores ==
    {Restrict([activity |-> a, recovery |-> r, sleep |-> sl], keys) :
        a \in {29, 30, 80, 81}, r \in {39, 40}, sl \in {49, 50, 69, 70},
        keys \in {{"activity", "recovery", "sleep"}, {"activity"}, {}}}

Hydrations ==
    {EmptyDict} \cup
    {[status |-> st] : st \in {"DEHYDRATED", "dehydrated", "Dehydrated", "OK"}}

RawTerras ==
    {[current_daily_snapshot |-> v] : v \in RawVitals}
    \cup {[current_daily_snapshot |-> [scores |-> sc]] : sc \in Scores}
    \cup {[body_metrics_latest |-> [hydration_data |-> h]] : h \in Hydrations}
    \cup {EmptyDict, [body_metrics_latest |-> EmptyDict]}

\* the seconds are multiples of 36, so that the hours have two decimals
Category(name, seconds, points) ==
    [category |-> name, time_spent_seconds |-> seconds,
     productivity_score |-> points]

CategoryBreakdowns ==
    {<<>>,
     <<Category("Social Networking", 21600, 0 - 2)>>,
     <<Category("News & Opinion", 3600, 0 - 1),
       Category("Software Development", 3600, 2)>>,
     <<Category("Utilities", 720, 0),
       Category("Entertainment", 18036, 0 - 2)>>,
     <<[category |-> "Software Development"], EmptyDict>>}

RawRescuetimes ==
    {Restrict([productivity_pulse |-> pulse, total_hours |-> h,
               category_breakdown |-> cb], keys) :
        pulse \in {39, 40, 59, 60}, h \in {199, 200, 999, 1000},
        cb \in CategoryBreakdowns,
        keys \in {{"productivity_pulse", "total_hours", "category_breakdown"},
                  {"productivity_pulse", "category_breakdown"},
                  {"total_hours", "category_breakdown"},
                  {"total_hours", "productivity_pulse"}}}

Summaries ==
    {"Math Exam", "Doctor appointment", "Coffee with Anna", "Train to Berlin",
     "Contest", "Yoga"}

\* minutes on the clock of the model
Starts ==
    {[minute |-> 45], [minute |-> 60], [text |-> "tomorrow"], [text |-> ""]}

RawItems ==
    {Restrict([summary |-> su, start |-> [dateTime |-> st]], keys) :
        su \in Summaries, st \in Starts,
        keys \in SUBSET {"summary", "start"}}
    \cup {[summary |-> "Yoga", start |-> EmptyDict]}

Filler == [summary |-> "Math Exam", start |-> [dateTime |-> [minute |-> 0]]]

RawCalendars ==
    {[items |-> <<>>], EmptyDict}
    \cup {[items |-> <<item>>] : item \in RawItems}
    \cup {[items |-> <<item, Filler, Filler>>] :
             item \in {it \in RawItems : DOMAIN it = {"summary", "start"}
                                         /\ it.summary = "Yoga"}}
    \cup {[items |-> <<item, Filler, Filler, Filler>>] :
             item \in {it \in RawItems : DOMAIN it = {"summary", "start"}
                                         /\ it.summary = "Coffee with Anna"}}

Places ==
    {"Home", "TU University Library", "Home Office", "Englischer Garten",
     "City Park", "Man vs Machine Coffee Roasters", "Cafe Frischhut",
     "Sports Bar", "Hauptbahnhof"}

Visit(name, is_current, minutes) ==
    [placeVisit |-> [location |-> [name |-> name],
                     isCurrentLocation |-> is_current,
                     duration |-> [start |-> 0, end |-> minutes]]]

Timelines ==
    {<<>>, <<[activitySegment |-> EmptyDict]>>,
     <<[placeVisit |-> EmptyDict]>>,
     <<[placeVisit |-> [location |-> EmptyDict, isCurrentLocation |-> TRUE]]>>}
    \cup {<<Visit(n, TRUE, 120)>> : n \in Places}
    \cup {<<Visit("Home", FALSE, h), [activitySegment |-> EmptyDict],
            Visit(n, TRUE, 60)>> :
             h \in {1200, 1203},
             n \in {"Cafe Frischhut", "Sports Bar", "Hauptbahnhof"}}
    \cup {<<Visit("Cafe Frischhut", TRUE, 60), Visit("City Park", TRUE, 60)>>,
          <<Visit("Home", FALSE, 600), Visit("Home", FALSE, 603)>>}

RawMaps == {EmptyDict} \cup {[timelineObjects |-> t] : t \in Timelines}

\* a payload with every section, and every optional field, present
PlainPayload ==
    [user_profile |-> [age |-> 25, occupation |-> "Software Engineer"],
     terra        |-> [current_daily_snapshot |->
                          [stress_data |-> [avg_stress_level |-> 40]]],
     rescuetime   |-> [productivity_pulse |-> 50, total_hours |-> 600,
                       category_breakdown |-> <<>>],
     gcal         |-> [items |-> <<[summary |-> "Yoga",
                                    start |-> [dateTime |-> [minute |-> 60]]]>>],
     gmaps        |-> [timelineObjects |-> <<Visit("Home", TRUE, 120)>>]]

RawPayloads ==
    {EmptyDict}
    \cup {Restrict(PlainPayload, keys) :
             keys \in {DOMAIN PlainPayload \ {k} : k \in DOMAIN PlainPayload}}
    \cup {Merge(PlainPayload, [user_profile |-> u]) : u \in RawProfiles}
    \cup {Merge(PlainPayload, [terra |-> t]) : t \in RawTerras}
    \cup {Merge(PlainPayload, [rescuetime |-> r]) : r \in RawRescuetimes}
    \cup {Merge(PlainPayload, [gcal |-> g]) : g \in RawCalendars}
    \cup {Merge(PlainPayload, [gmaps |-> g]) : g \in RawMaps}

\* extracts that no raw payload gives: inner keys absent, an empty event,
\* a start that is null
DirectExtracts ==
    {[productivity_analysis |-> Restrict(
          [productivity_pulse |-> 70, total_hours |-> 300,
           unproductive_time_hours |-> 600], keys)] :
        keys \in SUBSET {"productivity_pulse", "total_hours",
                         "unproductive_time_hours"}}
    \cup {[productivity_analysis |->
              [total_hours |-> h, unproductive_time_hours |-> u]] :
             h \in {1000, 1200}, u \in {500, 501}}
    \cup {[location_patterns |-> Restrict(
              [total_places_visited |-> n, home_time_hours |-> h,
               current_location |-> l], keys)] :
             n \in {1, 2}, h \in {2000, 2001},
             l \in {"Cafe Frischhut", "City Park"},
             keys \in {{"total_places_visited", "home_time_hours",
                        "current_location"},
                       {"total_places_visited", "home_time_hours"},
                       {"current_location"}, {}}}
    \cup {[upcoming_events |-> evs] :
             evs \in {<<EmptyDict>>, <<EmptyDict, [summary |-> "Math Exam"]>>,
                      <<[start |-> None]>>,
                      <<[start |-> [minute |-> 45]]>>,
                      <<[summary |-> "Contest", start |-> [minute |-> 90]]>>}}
    \cup {[occupation |-> "Pensioner"], [user_age |-> 80]}

----------------------------------------------------------------------------
(* The wellness run: the extract, then the three categorizers and the      *)
(* aggregation as lambda_handler of sentry_categorization.py calls them    *)
(* (lines 375-384), then the same extract through the inline nodes, then   *)
(* once more at a later reading of the clock. flow and inline hold what    *)
(* each step returned, Raised(x) for the step that ended the run; data is  *)
(* None when the extract was handed over directly.                         *)

otherVars == <<users, global_context, user_locs, i, j, seen_pairs, results,
               loc_a, loc_b, prox, contextVars, handlerVars, curateVars>>

InitWellness ==
    /\ \/ pc = "extract" /\ data \in RawPayloads /\ filtered_data = EmptyDict
       \/ pc = "profile" /\ data = None /\ filtered_data \in DirectExtracts
    /\ now \in Instants
    /\ flow = EmptyDict
    /\ inline = EmptyDict
    /\ earlier = EmptyDict
    /\ global_context = EmptyDict
    /\ AnalyzeIdle
    /\ ContextIdle
    /\ CurateIdle
    /\ HandlerIdle

\* data_filtering.py lines 5-197
ExtractStressIndicators ==
    /\ pc = "extract"
    /\ filtered_data' = extract_stress_indicators(data)
    /\ pc' = "profile"
    /\ UNCHANGED <<data, now, flow, inline, earlier, otherVars>>

\* one call of lambda_handler: its value is kept, an exception ends the run
FlowStep(key, value, next) ==
    /\ flow' = Merge(flow, [k \in {key} |-> value])
    /\ pc' = IF HasRaised(value) THEN value.raised ELSE next
    /\ UNCHANGED <<data, filtered_data, now, inline, earlier, otherVars>>

\* line 375
CategorizeUserProfile ==
    /\ pc = "profile"
    /\ FlowStep("user_profile",
                categorize_user_profile(filtered_data), "physiological")

\* line 376
CategorizePhysiologicalAndDigital ==
    /\ pc = "physiological"
    /\ FlowStep("physiological_digital",
                categorize_physiological_and_digital(filtered_data), "spatial")

\* line 377; datetime.now (line 250) reads the clock
CategorizeSpatialAndSchedule ==
    /\ pc = "spatial"
    /\ FlowStep("spatial_schedule",
                categorize_spatial_and_schedule(filtered_data, now), "aggregate")

\* lines 380-384
AggregateCategorizations ==
    /\ pc = "aggregate"
    /\ FlowStep("aggregated",
                aggregate_categorizations(flow.user_profile,
                                          flow.physiological_digital,
                                          flow.spatial_schedule),
                "flow_done")

\* the run of lambda_handler is over
FlowEnded == pc \in {"flow_done", "AttributeError", "TypeError"}

\* some step of the record ended with an exception
AnyRaised(steps) == \E k \in DOMAIN steps : HasRaised(steps[k])

\* one inline node
NodeStep(key, value) ==
    /\ FlowEnded
    /\ ~AnyRaised(inline)
    /\ inline' = Merge(inline, [k \in {key} |-> value])
    /\ UNCHANGED <<pc, data, filtered_data, now, flow, earlier, otherVars>>

NodeUserProfile ==
    /\ DOMAIN inline = {}
    /\ NodeStep("user_profile", node_categorize_user_profile(filtered_data))

NodePhysiologicalAndDigital ==
    /\ DOMAIN inline = {"user_profile"}
    /\ NodeStep("physiological_digital",
                node_categorize_physiological_and_digital(filtered_data))

NodeSpatialAndSchedule ==
    /\ DOMAIN inline = {"user_profile", "physiological_digital"}
    /\ NodeStep("spatial_schedule",
                node_categorize_spatial_and_schedule(filtered_data, now))

NodeAggregate ==
    /\ DOMAIN inline =
           {"user_profile", "physiological_digital", "spatial_schedule"}
    /\ NodeStep("aggregated",
                node_aggregate_categorizations(inline.user_profile,
                                               inline.physiological_digital,
                                               inline.spatial_schedule))

NodesEnded == AnyRaised(inline) \/ "aggregated" \in DOMAIN inline

\* the same extract is classified once more, the clock having advanced
ClassifyAgain ==
    /\ FlowEnded
    /\ NodesEnded
    /\ earlier = EmptyDict
    /\ \E later \in Instants :
           /\ later > now
           /\ now' = later
    /\ earlier' = [at |-> now, flow |-> flow, inline |-> inline]
    /\ flow' = EmptyDict
    /\ inline' = EmptyDict
    /\ pc' = "profile"
    /\ UNCHANGED <<data, filtered_data, otherVars>>

NextWellness ==
    \/ ExtractStressIndicators
    \/ CategorizeUserProfile
    \/ CategorizePhysiologicalAndDigital
    \/ CategorizeSpatialAndSchedule
    \/ AggregateCategorizations
    \/ NodeUserProfile
    \/ NodePhysiologicalAndDigital
    \/ NodeSpatialAndSchedule
    \/ NodeAggregate
    \/ ClassifyAgain

SpecWellness == InitWellness /\ [][NextWellness]_vars

----------------------------------------------------------------------------
(* lambda_handler of sentry_categorization.py (lines 318-436) and of       *)
(* scout_categorization.py (lines 363-485): the two differ in the names    *)
(* they look for and in the steps they run on the decoded data. A str is   *)
(* Json(v), the JSON text of v, or BadJson, a text that json.loads rejects;*)
(* a list is [list |-> its length]; None stands for every event that is no *)
(* container (null, a number); str(event) is kept by its length. The       *)
(* decoded data of the social mode hold an environment_feed only: users    *)
(* and events are the matter of the specifications above.                  *)

Json(value) == [json |-> value]

BadJson == [text |-> "{"]

IsStr(value) == "json" \in DOMAIN value \/ "text" \in DOMAIN value

IsDict(value) == value # None /\ ~IsStr(value) /\ "list" \notin DOMAIN value

\* json.loads(text)
loads(text) ==
    IF "json" \in DOMAIN text THEN text.json ELSE Raised("JSONDecodeError")

\* isinstance(x, str) and json.loads(x), or x itself
loads_if_str(value) == IF IsStr(value) THEN loads(value) ELSE value

\* `key in event`: a key of a dict, a substring of a str, an element of a list
In(key, ev) ==
    IF IsStr(ev)
    THEN "json" \in DOMAIN ev /\ IsDict(ev.json) /\ key \in DOMAIN ev.json
    ELSE IF "list" \in DOMAIN ev THEN FALSE
    ELSE key \in DOMAIN ev

\* sentry line 345, scout line 389
input_names(mode) ==
    IF mode = "sentry" THEN {"filtered_data", "stress_indicators"}
    ELSE {"scout_raw_data", "raw_data"}

\* sentry lines 341-355, scout lines 385-399
bedrock_input(mode, ev) ==
    LET inputs == ev.node.inputs
        named == {k \in 1..Len(inputs) :
                     Get(inputs[k], "name", "") \in input_names(mode)}
        first == CHOOSE k \in named : \A m \in named : k <= m
    IN  IF named = {} \/ Get(inputs[first], "value", None) = None
        THEN Raised("ValueError")
        ELSE loads_if_str(inputs[first].value)

\* `x or y` of scout line 408: None, {} and [] are falsy
Or(x, y) == IF x \in {None, EmptyDict, [list |-> 0]} THEN y ELSE x

\* sentry lines 363-369, scout lines 407-413
direct_input(mode, ev) ==
    IF mode = "sentry" THEN ev.filtered_data
    ELSE Or(Get(ev, "scout_raw_data", None), Get(ev, "raw_data", None))

\* sentry lines 338-372, scout lines 382-415: the decoded data, or the
\* exception raised on the way
decode(mode, ev) ==
    IF IsStr(ev) THEN loads(ev)
    ELSE IF In("node", ev) /\ ev.node = None THEN Raised("TypeError")
    ELSE IF In("node", ev) /\ "inputs" \in DOMAIN ev.node
         THEN bedrock_input(mode, ev)
    ELSE IF In("body", ev) THEN loads_if_str(ev.body)
    ELSE IF \E key \in (IF mode = "sentry" THEN {"filtered_data"}
                        ELSE {"scout_raw_data", "raw_data"}) : In(key, ev)
         THEN loads_if_str(direct_input(mode, ev))
    ELSE ev

\* sentry lines 375-384
sentry_steps(filtered) ==
    IF ~IsDict(filtered) THEN Raised("AttributeError")
    ELSE IF HasRaised(categorize_user_profile(filtered))
         THEN categorize_user_profile(filtered)
    ELSE IF HasRaised(categorize_physiological_and_digital(filtered))
         THEN categorize_physiological_and_digital(filtered)
    ELSE IF HasRaised(categorize_spatial_and_schedule(filtered, now))
         THEN categorize_spatial_and_schedule(filtered, now)
    ELSE aggregate_categorizations(
             categorize_user_profile(filtered),
             categorize_physiological_and_digital(filtered),
             categorize_spatial_and_schedule(filtered, now))

\* scout lines 418-437, env_feed being the environment_feed of the data
scout_steps ==
    IF WeatherIndexError THEN Raised("IndexError")
    ELSE [global_context           |-> process_global_context,
          user_cluster_map         |-> <<>>,
          relationship_frictions   |-> <<>>,
          curated_opportunity_feed |-> <<>>]

\* sentry line 423, scout line 472: str(event)[:500]
PreviewLimit == 500

event_received(chars) == [chars |-> Min(chars, PreviewLimit)]

\* sentry lines 403-406 and 420-425, scout lines 452-456 and 469-474
error_response(raised, chars) ==
    IF raised = "JSONDecodeError"
    THEN [error |-> "Invalid JSON input", message |-> raised]
    ELSE [error |-> "Internal server error", message |-> raised,
          event_received |-> event_received(chars)]

\* sentry lines 390-401, 408-418, 427-436: the envelope or the bare string
envelope(is_api_gateway, status, body) ==
    IF is_api_gateway
    THEN [statusCode |-> status,
          headers    |-> [ContentType |-> "application/json"],
          body       |-> Json(body)]
    ELSE Json(body)

SentryData ==
    {EmptyDict, [occupation |-> "Pensioner", user_age |-> 80],
     [occupation |-> NoneStr],
     [upcoming_events |-> <<[start |-> [minute |-> 45]]>>]}

ScoutData ==
    {EmptyDict, [users_sentry_state |-> <<>>]}
    \cup {[environment_feed |-> feed] :
             feed \in {EmptyDict,
                       [weather_api |-> [current |-> [weather |-> <<>>]]],
                       [weather_api |-> [current |-> [weather |-> <<[main |-> "Rain"]>>,
                                                      temp |-> 10]]],
                       [traffic_api |-> [summary |-> [travelTimeIndex |-> 250]]]}}

DataOf(mode) == IF mode = "sentry" THEN SentryData ELSE ScoutData

\* what a caller may put where the data are expected
Carried(mode) ==
    DataOf(mode) \cup {Json(d) : d \in DataOf(mode)}
    \cup {BadJson, None, [list |-> 0]}

InputItems(mode) ==
    {[name |-> n, value |-> v] :
        n \in {"filtered_data", "raw_data"}, v \in Carried(mode)}
    \cup {[name |-> "filtered_data"], [name |-> "raw_data"]}

Events(mode) ==
    {None, [list |-> 0], [list |-> 2], BadJson}
    \cup {Json(d) : d \in DataOf(mode)}
    \cup {Json([requestContext |-> EmptyDict])}
    \cup DataOf(mode)
    \cup {[node |-> None], [node |-> EmptyDict],
          [node |-> [inputs |-> <<>>]],
          [node |-> [inputs |-> <<[name |-> "document"]>>]]}
    \cup {[node |-> [inputs |-> <<[name |-> "document"], item>>]] :
             item \in InputItems(mode)}
    \cup {[requestContext |-> EmptyDict, node |-> [inputs |-> <<item>>]] :
             item \in InputItems(mode)}
    \cup {Restrict([requestContext |-> EmptyDict, httpMethod |-> "POST",
                    body |-> b], keys) :
             b \in Carried(mode),
             keys \in {{"requestContext", "body"}, {"httpMethod", "body"},
                       {"body"}}}
    \cup {[requestContext |-> EmptyDict], [httpMethod |-> "GET"]}
    \cup {[k \in {key} |-> v] :
             key \in {"filtered_data", "scout_raw_data", "raw_data"},
             v \in Carried(mode)}
    \cup {[scout_raw_data |-> EmptyDict, raw_data |-> v] : v \in Carried(mode)}

\* lengths of str(event) around the limit of the preview
EventChars == {20, PreviewLimit, PreviewLimit + 1, 2000}

InitHandler ==
    /\ pc = "handler_call"
    /\ \E mode \in {"sentry", "scout"} :
           lambda_event \in [mode : {mode}, event : Events(mode),
                             chars : EventChars]
    /\ handler = EmptyDict
    /\ response = EmptyDict
    /\ global_context = EmptyDict
    /\ SentryIdle
    /\ AnalyzeIdle
    /\ ContextIdle
    /\ CurateIdle

handlerFrame ==
    <<users, global_context, user_locs, i, j, seen_pairs, results, loc_a,
      loc_b, prox, utc_offset, sentryVars, curateVars, lambda_event>>

\* sentry line 334, scout line 378, on an event that `in` accepts
DetectGateway ==
    /\ pc = "handler_call"
    /\ lambda_event.event # None
    /\ handler' = [is_api_gateway |->
                      In("requestContext", lambda_event.event)
                      \/ In("httpMethod", lambda_event.event)]
    /\ pc' = "handler_try"
    /\ UNCHANGED <<response, env_feed, handlerFrame>>

\* the same line on an event that is no container: `in` raises TypeError
\* before the try statement is entered
RaiseOutsideTry ==
    /\ pc = "handler_call"
    /\ lambda_event.event = None
    /\ pc' = "TypeError"
    /\ UNCHANGED <<handler, response, env_feed, handlerFrame>>

\* where the run goes with what a step gave
Caught(value) == IF HasRaised(value) THEN "handler_except" ELSE "handler_steps"

\* sentry lines 338-372, scout lines 382-415
Decode ==
    /\ pc = "handler_try"
    /\ LET decoded == decode(lambda_event.mode, lambda_event.event)
       IN  /\ handler' = Merge(handler, [decoded |-> decoded])
           /\ pc' = Caught(decoded)
    /\ UNCHANGED <<response, env_feed, handlerFrame>>

\* sentry lines 375-387
RunSentrySteps ==
    /\ pc = "handler_steps"
    /\ lambda_event.mode = "sentry"
    /\ LET output == sentry_steps(handler.decoded)
       IN  /\ handler' = Merge(handler, [output |-> output])
           /\ pc' = IF HasRaised(output) THEN "handler_except"
                    ELSE "handler_return"
    /\ UNCHANGED <<response, env_feed, handlerFrame>>

\* scout line 418: raw_data.get("environment_feed", {})
ReadEnvironmentFeed ==
    /\ pc = "handler_steps"
    /\ lambda_event.mode = "scout"
    /\ IF IsDict(handler.decoded)
       THEN /\ env_feed' = Get(handler.decoded, "environment_feed", EmptyDict)
            /\ pc' = "handler_scout"
            /\ UNCHANGED handler
       ELSE /\ handler' = Merge(handler, [output |-> Raised("AttributeError")])
            /\ pc' = "handler_except"
            /\ UNCHANGED env_feed
    /\ UNCHANGED <<response, handlerFrame>>

\* scout lines 418-437
RunScoutSteps ==
    /\ pc = "handler_scout"
    /\ handler' = Merge(handler, [output |-> scout_steps])
    /\ pc' = IF HasRaised(scout_steps) THEN "handler_except"
             ELSE "handler_return"
    /\ UNCHANGED <<response, env_feed, handlerFrame>>

\* sentry lines 387-401, scout lines 440-450
ReturnOutput ==
    /\ pc = "handler_return"
    /\ response' = envelope(handler.is_api_gateway, 200, handler.output)
    /\ pc' = "handler_done"
    /\ UNCHANGED <<handler, env_feed, handlerFrame>>

\* the exception that the try statement caught
caught ==
    IF HasRaised(handler.decoded) THEN handler.decoded.raised
    ELSE handler.output.raised

\* sentry lines 403-436, scout lines 452-485
ReturnError ==
    /\ pc = "handler_except"
    /\ response' = envelope(handler.is_api_gateway,
                            IF caught = "JSONDecodeError" THEN 400 ELSE 500,
                            error_response(caught, lambda_event.chars))
    /\ pc' = "handler_done"
    /\ UNCHANGED <<handler, env_feed, handlerFrame>>

NextHandler ==
    \/ DetectGateway
    \/ RaiseOutsideTry
    \/ Decode
    \/ RunSentrySteps
    \/ ReadEnvironmentFeed
    \/ RunScoutSteps
    \/ ReturnOutput
    \/ ReturnError

SpecHandler == InitHandler /\ [][NextHandler]_vars

----------------------------------------------------------------------------
(* The input as the claims read it: the relations in iteration order *)

\* the positions <<user index, relation index>> of the input's relations
EdgePositions ==
    UNION {{<<u, k>> : k \in 1..Len(social_graph(users[u]))} : u \in 1..Len(users)}

\* p comes before q in iteration order
Before(p, q) == p[1] < q[1] \/ (p[1] = q[1] /\ p[2] < q[2])

EdgeAt(p) == social_graph(users[p[1]])[p[2]]

SourceIdAt(p) == users[p[1]].user_id

HasTargetAt(p) == "target_id" \in DOMAIN EdgeAt(p)

StatusAt(p, s) == "status" \in DOMAIN EdgeAt(p) /\ EdgeAt(p).status = s

\* the unordered pair a relation is about
PairAt(p) == {SourceIdAt(p), EdgeAt(p).target_id}

PairOfRecord(r) == {r.source_user, r.target_user}

\* the iteration of the relation at p has run, to its end or to an exception
Visited(p) ==
    \/ pc \in {"loop", "done", "TypeError", "AttributeError"} /\ Before(p, <<i, j>>)
    \/ pc \in {"TypeError", "AttributeError"} /\ p = <<i, j>>

\* the relation at p is the first one met of its pair
FirstOfPair(p) ==
    /\ HasTargetAt(p)
    /\ \A q \in EdgePositions :
           Before(q, p) /\ HasTargetAt(q) => PairAt(q) # PairAt(p)

\* the indices in results of the records of a pair
RecordsOf(pair) == {k \in 1..Len(results) : PairOfRecord(results[k]) = pair}

\* the location the input gives a user id (None: no such user)
LocationOf(id) ==
    IF \E k \in 1..Len(users) : users[k].user_id = id
    THEN (users[CHOOSE k \in 1..Len(users) : users[k].user_id = id]).current_location
    ELSE None

\* the proximity of the two ends of the relation at p
ProxAt(p) ==
    calculate_proximity_category(LocationOf(SourceIdAt(p)),
                                 LocationOf(EdgeAt(p).target_id))

----------------------------------------------------------------------------
(* Claims *)

\* C1: in every state of a run of analyze_relationships (after every
\* iteration, not only at the end) results holds at most one record per
\* unordered pair {source_user, target_user}.
C1_OneRecordPerPair ==
    \A a, b \in 1..Len(results) :
        PairOfRecord(results[a]) = PairOfRecord(results[b]) => a = b

\* C1 witness: a finished run whose input holds the same pair in both
\* directions, both CRITICAL_DISCONNECT, and whose results hold one record of it.
C1_Witness ==
    /\ pc = "done"
    /\ \E p, q \in EdgePositions :
           /\ Before(p, q)
           /\ HasTargetAt(p) /\ HasTargetAt(q)
           /\ SourceIdAt(p) # SourceIdAt(q)
           /\ PairAt(p) = PairAt(q)
           /\ StatusAt(p, "CRITICAL_DISCONNECT")
           /\ StatusAt(q, "CRITICAL_DISCONNECT")
           /\ Cardinality(RecordsOf(PairAt(p))) = 1

\* C2: every record of results comes from the first relation met of its pair:
\* that relation has been visited, the record has its source and target in
\* its direction, its status (CRITICAL_DISCONNECT, or GOOD as HEALTHY) and its
\* label (uppercased, or folded to PARENT_CHILD when it is a kinship label);
\* and the pair has no second record, so no later relation of the pair adds
\* or changes one.
C2_FirstSeenWins ==
    \A k \in 1..Len(results) :
        LET r == results[k]
        IN  /\ RecordsOf(PairOfRecord(r)) = {k}
            /\ \E p \in EdgePositions :
                   /\ FirstOfPair(p)
                   /\ Visited(p)
                   /\ SourceIdAt(p) = r.source_user
                   /\ EdgeAt(p).target_id = r.target_user
                   /\ \/ StatusAt(p, "CRITICAL_DISCONNECT")
                         /\ r.connection_health = "CRITICAL_DISCONNECT"
                      \/ StatusAt(p, "GOOD") /\ r.connection_health = "HEALTHY"
                   /\ LET label == Upper(Get(EdgeAt(p), "relation", ""))
                      IN  \/ r.relationship_type = label
                          \/ r.relationship_type = "PARENT_CHILD"
                             /\ label \in KinshipLabels

\* C2 witness: a finished run in which a pair has a first relation and a later
\* one in the other direction with another status and another label, and the
\* one record of the pair has the first relation's direction and status.
C2_Witness ==
    /\ pc = "done"
    /\ \E p, q \in EdgePositions :
           /\ FirstOfPair(p)
           /\ Before(p, q)
           /\ HasTargetAt(q)
           /\ PairAt(q) = PairAt(p)
           /\ SourceIdAt(q) # SourceIdAt(p)
           /\ StatusAt(p, "GOOD")
           /\ StatusAt(q, "CRITICAL_DISCONNECT")
           /\ EdgeAt(p).relation # EdgeAt(q).relation
           /\ \E k \in RecordsOf(PairAt(p)) :
                  /\ results[k].source_user = SourceIdAt(p)
                  /\ results[k].connection_health = "HEALTHY"

\* C3, as claimed: every relation visited as the first of its pair has left a
\* record exactly when its status is CRITICAL_DISCONNECT, or GOOD at
\* WALKING_DISTANCE.
C3_EmitsExactlyWhen ==
    \A p \in EdgePositions :
        Visited(p) /\ FirstOfPair(p) =>
            (RecordsOf(PairAt(p)) # {} <=>
                \/ StatusAt(p, "CRITICAL_DISCONNECT")
                \/ StatusAt(p, "GOOD") /\ ProxAt(p) = "WALKING_DISTANCE")

\* C4, as claimed: at the end of a run every CRITICAL_DISCONNECT relation of
\* the input, first of its pair or not, has a CRITICAL_DISCONNECT record of
\* its pair in results.
C4_EveryDisconnectReported ==
    pc = "done" =>
        \A p \in EdgePositions :
            HasTargetAt(p) /\ StatusAt(p, "CRITICAL_DISCONNECT") =>
                \E k \in RecordsOf(PairAt(p)) :
                    results[k].connection_health = "CRITICAL_DISCONNECT"

\* C4, amended: once a CRITICAL_DISCONNECT relation has been visited as the
\* first relation met of its pair, results holds a CRITICAL_DISCONNECT record
\* of the pair.
C4_FirstDisconnectReported ==
    \A p \in EdgePositions :
        Visited(p) /\ FirstOfPair(p) /\ StatusAt(p, "CRITICAL_DISCONNECT") =>
            \E k \in RecordsOf(PairAt(p)) :
                results[k].connection_health = "CRITICAL_DISCONNECT"

\* C4 witness: a finished run with a pair whose first relation is
\* CRITICAL_DISCONNECT and a later one GOOD, and the pair's record.
C4_Witness ==
    /\ pc = "done"
    /\ \E p, q \in EdgePositions :
           /\ FirstOfPair(p)
           /\ Before(p, q)
           /\ HasTargetAt(q)
           /\ PairAt(q) = PairAt(p)
           /\ StatusAt(p, "CRITICAL_DISCONNECT")
           /\ StatusAt(q, "GOOD")
           /\ \E k \in RecordsOf(PairAt(p)) :
                  results[k].connection_health = "CRITICAL_DISCONNECT"

Abs(n) == IF n < 0 THEN 0 - n ELSE n

\* the relation at p joins two users of the input whose coordinates differ by
\* 0.0005 degree in latitude and 0.0005 degree in longitude
HalfMilliDegreeApart(p) ==
    LET a == LocationOf(SourceIdAt(p))
        b == LocationOf(EdgeAt(p).target_id)
    IN  /\ a # None /\ b # None
        /\ {"lat", "lon"} \subseteq DOMAIN a
        /\ {"lat", "lon"} \subseteq DOMAIN b
        /\ Abs(a.lat - b.lat) = TenThousandthDegrees(5)
        /\ Abs(a.lon - b.lon) = TenThousandthDegrees(5)

\* C5, as claimed: a GOOD relation, first of its pair, between two users
\* 0.0005 degree apart both ways is at WALKING_DISTANCE and leaves a HEALTHY
\* record.
C5_WalkingDistanceRecord ==
    \A p \in EdgePositions :
        Visited(p) /\ FirstOfPair(p) /\ StatusAt(p, "GOOD")
        /\ HalfMilliDegreeApart(p) =>
            /\ ProxAt(p) = "WALKING_DISTANCE"
            /\ \E k \in RecordsOf(PairAt(p)) :
                   results[k].connection_health = "HEALTHY"

\* C5, amended: two users 0.0005 degree apart both ways (about 78 m) are
\* CO_LOCATED, and a GOOD relation between them, first of its pair, leaves no
\* record.
C5_CoLocatedNoRecord ==
    \A p \in EdgePositions :
        Visited(p) /\ FirstOfPair(p) /\ StatusAt(p, "GOOD")
        /\ HalfMilliDegreeApart(p) =>
            /\ ProxAt(p) = "CO_LOCATED"
            /\ RecordsOf(PairAt(p)) = {}

\* C5 witness: a finished run over such a pair and a GOOD relation.
C5_Witness ==
    /\ pc = "done"
    /\ results = <<>>
    /\ prox = "CO_LOCATED"
    /\ \E p \in EdgePositions :
           FirstOfPair(p) /\ StatusAt(p, "GOOD") /\ HalfMilliDegreeApart(p)

\* C6, as claimed: a CRITICAL_DISCONNECT relation, first of its pair, between
\* two users 0.0005 degree apart both ways leaves a CRITICAL_DISCONNECT record
\* with the nearby hint.
C6_NearbyHint ==
    \A p \in EdgePositions :
        Visited(p) /\ FirstOfPair(p) /\ StatusAt(p, "CRITICAL_DISCONNECT")
        /\ HalfMilliDegreeApart(p) =>
            \E k \in RecordsOf(PairAt(p)) :
                /\ results[k].connection_health = "CRITICAL_DISCONNECT"
                /\ results[k].scout_hint =
                       <<"Nearby + Disconnected = Suggest immediate meetup.">>

\* C6, amended: such a relation leaves a CRITICAL_DISCONNECT record at
\* CO_LOCATED whose hint is the generic alert.
C6_GenericHint ==
    \A p \in EdgePositions :
        Visited(p) /\ FirstOfPair(p) /\ StatusAt(p, "CRITICAL_DISCONNECT")
        /\ HalfMilliDegreeApart(p) =>
            \E k \in RecordsOf(PairAt(p)) :
                /\ results[k].connection_health = "CRITICAL_DISCONNECT"
                /\ results[k].proximity_opportunity = "CO_LOCATED"
                /\ results[k].scout_hint = <<"Critical Disconnect detected.">>

\* C6 witness: a finished run over such a pair and a CRITICAL_DISCONNECT
\* relation, with its record.
C6_Witness ==
    /\ pc = "done"
    /\ Len(results) = 1
    /\ results[1].scout_hint = <<"Critical Disconnect detected.">>
    /\ \E p \in EdgePositions :
           /\ FirstOfPair(p)
           /\ StatusAt(p, "CRITICAL_DISCONNECT")
           /\ HalfMilliDegreeApart(p)

\* C7: the value calculate_proximity_category returned for (loc_a, loc_b) is
\* its value for (loc_b, loc_a), a missing or empty location included.
C7_Symmetric ==
    pc = "proximity_done" => prox = calculate_proximity_category(loc_b, loc_a)

\* C7 witness: a call on two different places at WALKING_DISTANCE.
C7_Witness ==
    /\ pc = "proximity_done"
    /\ ~Falsy(loc_a) /\ ~Falsy(loc_b)
    /\ Get(loc_a, "lat", 0) # Get(loc_b, "lat", 0)
    /\ Get(loc_a, "lon", 0) # Get(loc_b, "lon", 0)
    /\ prox = "WALKING_DISTANCE"

\* the buckets in the order of growing distance
BucketRank(b) ==
    CASE b = "CO_LOCATED" -> 0
      [] b = "WALKING_DISTANCE" -> 1
      [] b = "SAME_DISTRICT" -> 2
      [] b = "DISTANT" -> 3

C9_KinshipFolded ==
    \A k \in 1..Len(results) :
        \A p \in EdgePositions :
            /\ FirstOfPair(p)
            /\ PairAt(p) = PairOfRecord(results[k])
            /\ "relation" \in DOMAIN EdgeAt(p)
            => results[k].relationship_type =
                   IF Upper(EdgeAt(p).relation)
                          \in {"SON", "DAUGHTER", "FATHER", "MOTHER"}
                   THEN "PARENT_CHILD"
                   ELSE Upper(EdgeAt(p).relation)

\* C10: every CRITICAL_DISCONNECT record has the proximity of its two ends and
\* the hint of the table: phone/video call for HIGH_FRICTION at DISTANT,
\* immediate meetup at WALKING_DISTANCE, the generic alert for CO_LOCATED,
\* SAME_DISTRICT, UNKNOWN and for DISTANT without HIGH_FRICTION.
C10_HintTable ==
    \A k \in 1..Len(results) :
        LET r == results[k]
            q == r.proximity_opportunity
            high == global_context.transit_friction = "HIGH_FRICTION"
        IN  r.connection_health = "CRITICAL_DISCONNECT" =>
                /\ q = calculate_proximity_category(LocationOf(r.source_user),
                                                    LocationOf(r.target_user))
                /\ r.scout_hint =
                       CASE q = "DISTANT" /\ high ->
                                <<"High Friction Travel + Critical Disconnect = Suggest Phone/Video Call.">>
                         [] q = "WALKING_DISTANCE" ->
                                <<"Nearby + Disconnected = Suggest immediate meetup.">>
                         [] q \in {"CO_LOCATED", "SAME_DISTRICT", "UNKNOWN"} ->
                                <<"Critical Disconnect detected.">>
                         [] q = "DISTANT" /\ ~high ->
                                <<"Critical Disconnect detected.">>

\* C10 witness: a finished run under HIGH_FRICTION with a CRITICAL_DISCONNECT
\* record at DISTANT carrying the phone/video-call hint.
C10_Witness ==
    /\ pc = "done"
    /\ global_context.transit_friction = "HIGH_FRICTION"
    /\ \E k \in 1..Len(results) :
           /\ results[k].connection_health = "CRITICAL_DISCONNECT"
           /\ results[k].proximity_opportunity = "DISTANT"
           /\ results[k].scout_hint =
                  <<"High Friction Travel + Critical Disconnect = Suggest Phone/Video Call.">>

----------------------------------------------------------------------------
(* Claims on process_global_context *)

\* the call has returned a GlobalContext
ContextReturned == pc = "context_done"

\* C11: whenever process_global_context returns, outdoor_viability is
\* INDOOR_ONLY if the snapshot's condition is Rain, Snow, Thunderstorm or
\* Drizzle, whatever the temperature; otherwise VIABLE_WITH_GEAR if the
\* temperature is below 15 and OPTIMAL if it is 15 or more. A condition that is
\* missing (no weather entry, or a first entry without main) counts as Clear, a
\* missing temperature as 20. The call raises only on an empty weather list.
C11_OutdoorViability ==
    LET w == weather_curr
        condition == IF "weather" \in DOMAIN w /\ Len(w.weather) > 0
                        /\ "main" \in DOMAIN w.weather[1]
                     THEN w.weather[1].main ELSE "Clear"
        temperature == IF "temp" \in DOMAIN w THEN w.temp ELSE 20
    IN  /\ pc = "IndexError" => "weather" \in DOMAIN w /\ w.weather = <<>>
        /\ ContextReturned =>
               global_context.outdoor_viability =
                   IF condition \in {"Rain", "Snow", "Thunderstorm", "Drizzle"}
                   THEN "INDOOR_ONLY"
                   ELSE IF temperature < 15 THEN "VIABLE_WITH_GEAR"
                   ELSE "OPTIMAL"

\* C11 witness: a returned call on a snapshot with Snow at 14 degrees, which is
\* INDOOR_ONLY although the temperature alone would give VIABLE_WITH_GEAR.
C11_Witness ==
    /\ ContextReturned
    /\ "weather" \in DOMAIN weather_curr
    /\ weather_curr.weather = <<[main |-> "Snow"]>>
    /\ "temp" \in DOMAIN weather_curr
    /\ weather_curr.temp = 14
    /\ global_context.outdoor_viability = "INDOOR_ONLY"

C13_PhaseByLocalHour ==
    ContextReturned =>
        IF "dt" \in DOMAIN weather_curr
        THEN LET h == hour(weather_curr.dt)
             IN  global_context.temporal_phase =
                     CASE h \in 9..16  -> "WORK_HOURS"
                       [] h \in 17..18 -> "EVENING_TRANSITION"
                       [] h \in 19..21 -> "PRIME_SOCIAL_TIME"
                       [] OTHER        -> "LATE_NIGHT"
        ELSE global_context.temporal_phase = "UNKNOWN"

\* C19: process_global_context never raises, whichever of the fields of
\* env_feed are absent or empty (an empty weather list included), and what it
\* returns is a GlobalContext with its four fields.
C19_Total ==
    /\ pc # "IndexError"
    /\ ContextReturned =>
           DOMAIN global_context =
               {"outdoor_viability", "transit_friction", "temporal_phase",
                "implication"}

----------------------------------------------------------------------------
(* Claims on transform_user_state *)

\* C18: in the user cluster map every user's wellness_need follows the
\* priority: ISOLATION_RISK among the risk flags gives SOCIAL_CONNECTION
\* whatever the stress level; otherwise stress HIGH or CRITICAL_HIGH gives
\* REST_RECOVERY, ELEVATED or MODERATE gives STRESS_RELIEF, FATIGUED gives
\* REST_RECOVERY, and any other or missing stress level gives MAINTENANCE.
C18_WellnessPriority ==
    pc = "transform_done" =>
        /\ Len(users_map) = Len(users)
        /\ \A k \in 1..Len(users) :
               LET u == users[k]
                   sa == IF "sentry_analysis" \in DOMAIN u
                         THEN u.sentry_analysis ELSE EmptyDict
                   flagged == "risk_flags" \in DOMAIN sa
                              /\ "ISOLATION_RISK" \in sa.risk_flags
                   stress == IF "stress_level" \in DOMAIN sa
                             THEN sa.stress_level ELSE "(missing)"
               IN  users_map[k].wellness_need =
                       CASE flagged -> "SOCIAL_CONNECTION"
                         [] ~flagged /\ stress \in {"HIGH", "CRITICAL_HIGH"} ->
                                "REST_RECOVERY"
                         [] ~flagged /\ stress \in {"ELEVATED", "MODERATE"} ->
                                "STRESS_RELIEF"
                         [] ~flagged /\ stress = "FATIGUED" -> "REST_RECOVERY"
                         [] OTHER -> "MAINTENANCE"

\* C18 witness: a transformed user flagged ISOLATION_RISK whose stress level is
\* HIGH, and whose wellness_need is SOCIAL_CONNECTION.
C18_Witness ==
    /\ pc = "transform_done"
    /\ \E k \in 1..Len(users) :
           /\ "sentry_analysis" \in DOMAIN users[k]
           /\ FieldIs(users[k].sentry_analysis, "stress_level", "HIGH")
           /\ "risk_flags" \in DOMAIN users[k].sentry_analysis
           /\ "ISOLATION_RISK" \in users[k].sentry_analysis.risk_flags
           /\ users_map[k].wellness_need = "SOCIAL_CONNECTION"

\* the rearrangements of a list of n elements
Permutations(n) ==
    {p \in [1..n -> 1..n] : \A a, b \in 1..n : a # b => p[a] # p[b]}

----------------------------------------------------------------------------
(* Claims on curate_opportunities *)

\* the candidate that the k-th record of curated was built from
CandidateOf(k) == events[k]

\* the candidate is outdoor-flagged: one of the six words occurs in its
\* title, its description or its type
OutdoorFlagged(ev) ==
    \E word \in {"walking", "park", "outdoor", "garden", "hiking", "nature"} :
        \/ "name" \in DOMAIN ev /\ word \in KeywordsIn(ev["name"])
        \/ "description" \in DOMAIN ev /\ word \in KeywordsIn(ev["description"])
        \/ "@type" \in DOMAIN ev /\ word \in KeywordsIn(ev["@type"])

C15_EnvironmentMatch ==
    \A k \in 1..Len(curated) :
        LET r == curated[k]
            forbidden == /\ global_context.outdoor_viability = "INDOOR_ONLY"
                         /\ OutdoorFlagged(CandidateOf(k))
        IN  /\ forbidden => r.environment_match = "MISMATCH"
            /\ ~forbidden => r.environment_match = "MATCHES_CURRENT_CONDITIONS"
            /\ "reason" \in DOMAIN r <=> r.environment_match = "MISMATCH"

\* C15 witness: a returned list under INDOOR_ONLY with a record tagged
\* MISMATCH that carries a reason, its candidate being outdoor-flagged.
C15_Witness ==
    /\ pc = "curate_done"
    /\ global_context.outdoor_viability = "INDOOR_ONLY"
    /\ \E k \in 1..Len(curated) :
           /\ OutdoorFlagged(CandidateOf(k))
           /\ curated[k].environment_match = "MISMATCH"
           /\ "reason" \in DOMAIN curated[k]

C17_StressReliefHigh ==
    \A k \in 1..Len(curated) : \A m \in 1..Len(users_map) :
        /\ "@type" \in DOMAIN events[k]
        /\ events[k]["@type"] = "SportsEvent"
        /\ users_map[m].wellness_need = "STRESS_RELIEF"
        => /\ users_map[m].user_id \in DOMAIN curated[k].suitability
           /\ curated[k].suitability[users_map[m].user_id] = "HIGH"

\* C17 amended: in every record built from a SportsEvent candidate, a
\* classified user whose wellness_need is STRESS_RELIEF is scored HIGH when
\* the user's id is user_01_student and MEDIUM when it is any other id.
C17_StressReliefHighForStudent ==
    \A k \in 1..Len(curated) : \A m \in 1..Len(users_map) :
        /\ "@type" \in DOMAIN events[k]
        /\ events[k]["@type"] = "SportsEvent"
        /\ users_map[m].wellness_need = "STRESS_RELIEF"
        => /\ users_map[m].user_id \in DOMAIN curated[k].suitability
           /\ curated[k].suitability[users_map[m].user_id] =
                  IF users_map[m].user_id = "user_01_student"
                  THEN "HIGH" ELSE "MEDIUM"

\* C17 witness: a returned record of a SportsEvent for two users in need of
\* STRESS_RELIEF, user_01_student scored HIGH and the other MEDIUM.
C17_Witness ==
    /\ pc = "curate_done"
    /\ \E k \in 1..Len(curated) : \E m, n \in 1..Len(users_map) :
           /\ "@type" \in DOMAIN events[k]
           /\ events[k]["@type"] = "SportsEvent"
           /\ users_map[m].wellness_need = "STRESS_RELIEF"
           /\ users_map[n].wellness_need = "STRESS_RELIEF"
           /\ users_map[m].user_id = "user_01_student"
           /\ users_map[n].user_id # "user_01_student"
           /\ curated[k].suitability[users_map[m].user_id] = "HIGH"
           /\ curated[k].suitability[users_map[n].user_id] = "MEDIUM"

----------------------------------------------------------------------------
(* Claims on missing fields in analyze_relationships *)

\* C20: analyze_relationships never raises, whichever optional fields are
\* missing: a user without current_location or social_graph_snapshot, a
\* relation without target_id, relation or status.
C20_NeverRaises ==
    pc \notin {"KeyError", "TypeError", "AttributeError"}

----------------------------------------------------------------------------
(* Claims on the wellness pipeline *)

Sections ==
    [user_profile        |-> {"life_stage", "mobility_profile",
                              "social_battery_preference",
                              "communication_style", "intervention_level"},
     physiological_state |-> {"stress_level", "heart_rate_context",
                              "exertion_status", "sleep_debt",
                              "hydration_status"},
     digital_hygiene     |-> {"digital_state", "productivity_pulse",
                              "dominant_app_category"},
     spatial_context     |-> {"location_category", "mobility_mode",
                              "social_environment_inferred"},
     schedule_context    |-> {"current_availability", "upcoming_event_type",
                              "schedule_density"}]

\* the record has the five sections, each with all its fields
Complete(record) ==
    /\ DOMAIN record = DOMAIN Sections
    /\ \A section \in DOMAIN Sections :
           DOMAIN record[section] = Sections[section]

\* C21: whichever optional fields a raw payload lacks, no step of the
\* wellness pipeline raises on what extract_stress_indicators wrote for them,
\* and the run ends with a record of five complete sections.
C21_AbsentFieldsDegrade ==
    data # None =>
        /\ ~AnyRaised(flow)
        /\ pc \notin {"AttributeError", "TypeError"}
        /\ pc = "flow_done" => Complete(flow.aggregated)

\* the extract as the claims read it
AvgStressGiven ==
    Get(Get(filtered_data, "stress_data", EmptyDict), "avg_stress_level", 0)

ElevationGiven ==
    Get(Get(filtered_data, "heart_rate", EmptyDict),
        "hr_elevation_above_resting", 0)

\* the step has returned a value in the run
Returned(steps, step) == step \in DOMAIN steps /\ ~HasRaised(steps[step])

\* C30: in flow component and inline node alike, heart_rate_context is
\* ELEVATED_SEDENTARY only together with a stress_level of ELEVATED or
\* CRITICAL_HIGH, and an elevation of 20 or more with an average stress of
\* exactly 60 gives stress_level ELEVATED with heart_rate_context
\* ELEVATED_ACTIVE.
C30_SedentaryOnlyAboveSixty ==
    \A steps \in {flow, inline} :
        Returned(steps, "physiological_digital") =>
            LET state == steps.physiological_digital.physiological_state
            IN  /\ state.heart_rate_context = "ELEVATED_SEDENTARY" =>
                       state.stress_level \in {"ELEVATED", "CRITICAL_HIGH"}
                /\ (ElevationGiven >= 20 /\ AvgStressGiven = 60) =>
                       /\ state.stress_level = "ELEVATED"
                       /\ state.heart_rate_context = "ELEVATED_ACTIVE"

C30_Witness ==
    /\ Returned(flow, "physiological_digital")
    /\ Returned(inline, "physiological_digital")
    /\ ElevationGiven >= 20
    /\ AvgStressGiven = 60
    /\ inline.physiological_digital.physiological_state.heart_rate_context
           = "ELEVATED_ACTIVE"

\* C27: on the same extract and the same clock, the inline node and the flow
\* component return the same spatial_context and schedule_context, or both
\* end with an exception.
C27_SpatialNodeAgreesWithFlow ==
    ("spatial_schedule" \in DOMAIN flow /\ "spatial_schedule" \in DOMAIN inline)
        => \/ inline.spatial_schedule = flow.spatial_schedule
           \/ HasRaised(inline.spatial_schedule)
              /\ HasRaised(flow.spatial_schedule)

\* C28: on the same input the inline nodes categorize_user_profile,
\* categorize_physiological_and_digital and aggregate_categorizations return
\* what the flow component's functions of the same name return.
C28_NodesAgreeWithFlow ==
    /\ \A step \in {"user_profile", "physiological_digital"} :
           (step \in DOMAIN flow /\ step \in DOMAIN inline)
               => inline[step] = flow[step]
    /\ "aggregated" \in DOMAIN inline =>
           inline.aggregated =
               aggregate_categorizations(inline.user_profile,
                                         inline.physiological_digital,
                                         inline.spatial_schedule)

C28_Witness ==
    /\ Returned(flow, "aggregated")
    /\ Returned(inline, "aggregated")
    /\ inline.aggregated.user_profile.mobility_profile = "LIMITED_MOBILITY"
    /\ flow.aggregated.user_profile.life_stage = "RETIRED"

\* what a step returned, without the availability that the clock decides
Timeless(value) ==
    IF "schedule_context" \in DOMAIN value
    THEN [value EXCEPT !.schedule_context.current_availability = "any"]
    ELSE value

\* the availability in what a step returned
AvailabilityIn(value) == value.schedule_context.current_availability

\* C25: when one extract is classified at two readings of the clock, every
\* step returns the same both times in every field but
\* schedule_context.current_availability.
C25_OnlyAvailabilityFollowsClock ==
    earlier # EmptyDict =>
        \A step \in DOMAIN flow :
            /\ step \in DOMAIN earlier.flow
            /\ Timeless(flow[step]) = Timeless(earlier.flow[step])

C25_Witness ==
    /\ earlier # EmptyDict
    /\ Returned(flow, "aggregated")
    /\ AvailabilityIn(flow.aggregated)
           # AvailabilityIn(earlier.flow.aggregated)

UpcomingGiven == Get(filtered_data, "upcoming_events", <<>>)

\* the start of the first event, None when there is no event or no start
FirstStart ==
    IF UpcomingGiven = <<>> THEN None
    ELSE Get(UpcomingGiven[1], "start", None)

\* the availability that the first event gives at the instant
AvailabilityBy(at) ==
    IF "minute" \notin DOMAIN FirstStart THEN "FREE"
    ELSE IF FirstStart.minute < at THEN "BUSY"
    ELSE IF FirstStart.minute < at + 60 THEN "TRANSITION_BUFFER"
    ELSE "FREE"

Rank(availability) ==
    CASE availability = "FREE"              -> 0
      [] availability = "TRANSITION_BUFFER" -> 1
      [] availability = "BUSY"              -> 2

\* C29: whenever the classifier returns, in flow component and inline node
\* alike, current_availability is what the first event alone gives: BUSY when
\* its start is before now, TRANSITION_BUFFER when it is less than an hour
\* ahead, FREE otherwise and when there is no event or no readable start; and
\* between two readings of the clock on one extract the value never moves
\* back in the order FREE, TRANSITION_BUFFER, BUSY.
C29_AvailabilityByFirstEvent ==
    /\ \A steps \in {flow, inline} :
           Returned(steps, "spatial_schedule") =>
               AvailabilityIn(steps.spatial_schedule) = AvailabilityBy(now)
    /\ \A run \in {"flow", "inline"} :
           (/\ earlier # EmptyDict
            /\ Returned(earlier[run], "spatial_schedule")
            /\ Returned(IF run = "flow" THEN flow ELSE inline,
                        "spatial_schedule"))
           => Rank(AvailabilityIn(earlier[run].spatial_schedule))
                  <= Rank(AvailabilityIn(
                         IF run = "flow" THEN flow.spatial_schedule
                         ELSE inline.spatial_schedule))

C29_Witness ==
    /\ earlier # EmptyDict
    /\ Len(UpcomingGiven) >= 2
    /\ Returned(flow, "spatial_schedule")
    /\ Returned(inline, "spatial_schedule")
    /\ AvailabilityIn(earlier.flow.spatial_schedule) = "FREE"
    /\ AvailabilityIn(inline.spatial_schedule) = "BUSY"

----------------------------------------------------------------------------
(* Claims on lambda_handler *)

\* the exception raised while decoding or running the steps, "" if none
Failure ==
    IF "decoded" \in DOMAIN handler /\ HasRaised(handler.decoded)
    THEN handler.decoded.raised
    ELSE IF "output" \in DOMAIN handler /\ HasRaised(handler.output)
    THEN handler.output.raised
    ELSE ""

\* the JSON text that the caller gets, in the envelope or bare
ResponseText == IF "statusCode" \in DOMAIN response THEN response.body ELSE response

\* C22: in both modes lambda_handler lets no exception out: whatever the
\* event, a gateway invocation gets an envelope with statusCode 200, 400 or
\* 500 and any other invocation a JSON string; a JSON decode failure gives
\* 'Invalid JSON input' with the decoder's message (400 in the envelope), any
\* other exception 'Internal server error' (500 in the envelope) with a
\* preview of at most 500 characters of the event.
C22_HandlerNeverPropagates ==
    /\ pc # "TypeError"
    /\ pc = "handler_done" =>
           /\ handler.is_api_gateway <=> "statusCode" \in DOMAIN response
           /\ IsStr(ResponseText)
           /\ handler.is_api_gateway =>
                  response.statusCode =
                      (CASE Failure = "" -> 200
                         [] Failure = "JSONDecodeError" -> 400
                         [] OTHER -> 500)
           /\ Failure = "JSONDecodeError" =>
                  /\ ResponseText.json.error = "Invalid JSON input"
                  /\ ResponseText.json.message = Failure
           /\ Failure \notin {"", "JSONDecodeError"} =>
                  /\ ResponseText.json.error = "Internal server error"
                  /\ ResponseText.json.event_received.chars <= 500
                  /\ ResponseText.json.event_received.chars <= lambda_event.chars

----------------------------------------------------------------------------
(* Claims on the social mode as a whole *)

Vocabulary ==
    [outdoor_viability     |-> {"OPTIMAL", "VIABLE_WITH_GEAR", "INDOOR_ONLY"},
     transit_friction      |-> {"LOW_FRICTION", "MODERATE_DELAY",
                                "HIGH_FRICTION"},
     temporal_phase        |-> {"WORK_HOURS", "EVENING_TRANSITION",
                                "PRIME_SOCIAL_TIME", "LATE_NIGHT", "UNKNOWN"},
     proximity_opportunity |-> {"CO_LOCATED", "WALKING_DISTANCE",
                                "SAME_DISTRICT", "DISTANT", "UNKNOWN"},
     environment_match     |-> {"MATCHES_CURRENT_CONDITIONS", "MISMATCH"},
     suitability           |-> {"MEDIUM", "HIGH"}]

====
